---- MODULE Spec2Model ----
(***************************************************************************)
(* Model of the Kani conversation engine: AgentMemory (state machine,      *)
(* condition matcher, knowledge base, disqualification rules, token        *)
(* accounting) and KaniService.processUserInput, the per-turn orchestrator.*)
(* Strings are TLA+ strings; a character is a string of length 1.          *)
(***************************************************************************)
EXTENDS Integers, Sequences, FiniteSets, TLC

(***************************************************************************)
(* JavaScript string primitives used by the service.                       *)
(***************************************************************************)
UpperChars == "ABCDEFGHIJKLMNOPQRSTUVWXYZ"

LowerChars == "abcdefghijklmnopqrstuvwxyz"

CharAt(s, i) == SubSeq(s, i, i)

\* the characters of s, as a set
CharsOf(s) == {CharAt(s, i) : i \in 1..Len(s)}

\* the character of `to` at the place c has in `from`
MapChar(c, from, to) == CharAt(to, CHOOSE i \in 1..Len(from) : CharAt(from, i) = c)

UpperToLower == [c \in CharsOf(UpperChars) |-> MapChar(c, UpperChars, LowerChars)]

LowerToUpper == [c \in CharsOf(LowerChars) |-> MapChar(c, LowerChars, UpperChars)]

LowerChar(c) == IF c \in DOMAIN UpperToLower THEN UpperToLower[c] ELSE c

UpperChar(c) == IF c \in DOMAIN LowerToUpper THEN LowerToUpper[c] ELSE c

RECURSIVE toLowerCase(_)
toLowerCase(s) ==
  IF s = "" THEN ""
  ELSE LowerChar(CharAt(s, 1)) \o toLowerCase(SubSeq(s, 2, Len(s)))

IsSpace(c) == c \in {" ", "\t", "\n", "\r"}

RECURSIVE trimStart(_)
trimStart(s) ==
  IF s # "" /\ IsSpace(CharAt(s, 1)) THEN trimStart(SubSeq(s, 2, Len(s))) ELSE s

RECURSIVE trimEnd(_)
trimEnd(s) ==
  IF s # "" /\ IsSpace(CharAt(s, Len(s))) THEN trimEnd(SubSeq(s, 1, Len(s) - 1)) ELSE s

trim(s) == trimEnd(trimStart(s))

includes(s, t) ==
  \E i \in 0..(Len(s) - Len(t)) : SubSeq(s, i + 1, i + Len(t)) = t

startsWith(s, t) == Len(t) <= Len(s) /\ SubSeq(s, 1, Len(t)) = t

endsWith(s, t) == Len(t) <= Len(s) /\ SubSeq(s, Len(s) - Len(t) + 1, Len(s)) = t

\* s.substring(n): the text after the first n characters
substring(s, n) == SubSeq(s, n + 1, Len(s))

\* s.split(sep) for a one-character separator: the pieces, empty ones kept
RECURSIVE splitOn(_, _)
splitOn(s, sep) ==
  IF ~includes(s, sep) THEN <<s>>
  ELSE LET i == CHOOSE k \in 1..Len(s) :
                  /\ CharAt(s, k) = sep
                  /\ \A j \in 1..(k - 1) : CharAt(s, j) # sep
       IN <<SubSeq(s, 1, i - 1)>> \o splitOn(SubSeq(s, i + 1, Len(s)), sep)

\* s.split(/\s+/): a run of whitespace is one separator
RECURSIVE splitWhitespace(_)
splitWhitespace(s) ==
  IF \A k \in 1..Len(s) : ~IsSpace(CharAt(s, k)) THEN <<s>>
  ELSE LET i == CHOOSE k \in 1..Len(s) :
                  /\ IsSpace(CharAt(s, k))
                  /\ \A j \in 1..(k - 1) : ~IsSpace(CharAt(s, j))
       IN <<SubSeq(s, 1, i - 1)>> \o splitWhitespace(trimStart(SubSeq(s, i, Len(s))))

\* s.replace(/c/g, by) for a single character c
RECURSIVE replaceChar(_, _, _)
replaceChar(s, c, by) ==
  IF s = "" THEN ""
  ELSE (IF CharAt(s, 1) = c THEN by ELSE CharAt(s, 1))
         \o replaceChar(SubSeq(s, 2, Len(s)), c, by)

(***************************************************************************)
(* new RegExp(source, 'i') and RegExp.test, for sources made of literal    *)
(* characters, '.', the quantifiers * + ? (each optionally followed by the *)
(* lazy marker ?) and the alternation bar.  A quantifier with nothing to   *)
(* repeat makes the constructor throw.                                     *)
(***************************************************************************)
IsQuantifier(c) == c \in {"*", "+", "?"}

\* the atoms of one alternative: <<[ch, q]>> with q in {"1","*","+","?"},
\* or <<"error">> as the only element when the alternative is malformed
RECURSIVE parseAtoms(_)
parseAtoms(alt) ==
  IF alt = "" THEN <<>>
  ELSE IF IsQuantifier(CharAt(alt, 1)) THEN <<[ch |-> "", q |-> "error"]>>
  ELSE LET c    == CharAt(alt, 1)
           hasQ == Len(alt) >= 2 /\ IsQuantifier(CharAt(alt, 2))
           lazy == hasQ /\ Len(alt) >= 3 /\ CharAt(alt, 3) = "?"
           used == IF lazy THEN 3 ELSE IF hasQ THEN 2 ELSE 1
           rest == parseAtoms(SubSeq(alt, used + 1, Len(alt)))
       IN IF rest # <<>> /\ rest[1].q = "error" THEN rest
          ELSE <<[ch |-> c, q |-> IF hasQ THEN CharAt(alt, 2) ELSE "1"]>> \o rest

regexAlternatives(source) ==
  LET alts == splitOn(source, "|")
  IN [i \in 1..Len(alts) |-> parseAtoms(alts[i])]

altsThrow(alts) ==
  \E i \in 1..Len(alts) : alts[i] # <<>> /\ alts[i][1].q = "error"

\* whether new RegExp(source) throws
regexThrows(source) == altsThrow(regexAlternatives(source))

charMatches(pc, c) ==
  IF pc = "." THEN c \notin {"\n", "\r"} ELSE LowerChar(pc) = LowerChar(c)

\* positions reachable from the set S by consuming one character matching pc
stepChar(S, pc, s) ==
  {p + 1 : p \in {x \in S : x < Len(s) /\ charMatches(pc, CharAt(s, x + 1))}}

RECURSIVE stepStar(_, _, _)
stepStar(S, pc, s) ==
  LET T == S \cup stepChar(S, pc, s)
  IN IF T = S THEN S ELSE stepStar(T, pc, s)

stepAtom(S, atom, s) ==
  CASE atom.q = "1" -> stepChar(S, atom.ch, s)
    [] atom.q = "?" -> S \cup stepChar(S, atom.ch, s)
    [] atom.q = "*" -> stepStar(S, atom.ch, s)
    [] atom.q = "+" -> stepStar(stepChar(S, atom.ch, s), atom.ch, s)

RECURSIVE runAtoms(_, _, _)
runAtoms(S, atoms, s) ==
  IF atoms = <<>> THEN S
  ELSE runAtoms(stepAtom(S, atoms[1], s), Tail(atoms), s)

altsTest(alts, s) ==
  \E i \in 1..Len(alts) : runAtoms(0..Len(s), alts[i], s) # {}

\* new RegExp(source, 'i').test(s), for a source that compiles
regexTest(source, s) == altsTest(regexAlternatives(source), s)

\* mutant: a source that does not compile matches everything
regexTestOr_MatchesOnError(alts, s, onError) ==
  IF altsThrow(alts) THEN TRUE ELSE altsTest(alts, s)

\* try { new RegExp(source, 'i').test(s) } catch { onError }
regexTestOr(alts, s, onError) ==
  IF altsThrow(alts) THEN onError ELSE altsTest(alts, s)

(***************************************************************************)
(* AgentMemory.matchesSingleCondition and matchesCondition                 *)
(***************************************************************************)
\* mutant: a word is compared with the word two places before it
repeatedWords_SkipsOne(response) ==
  LET words == splitWhitespace(response)
  IN {words[i] : i \in {k \in 3..Len(words) : words[k] = words[k - 2]}}

\* words equal to the word before them
repeatedWords(response) ==
  LET words == splitWhitespace(response)
  IN {words[i] : i \in {k \in 2..Len(words) : words[k] = words[k - 1]}}

\* mutant: a condition that does not compile is matched as a substring
matchesSingleCondition_Degrades(response, condition) ==
  IF startsWith(condition, "contains:")
    THEN includes(response, trim(substring(condition, Len("contains:"))))
  ELSE IF startsWith(condition, "exact:")
    THEN response = trim(substring(condition, Len("exact:")))
  ELSE IF startsWith(condition, "starts:")
    THEN startsWith(response, trim(substring(condition, Len("starts:"))))
  ELSE IF startsWith(condition, "ends:")
    THEN endsWith(response, trim(substring(condition, Len("ends:"))))
  ELSE IF \/ includes(condition, "*") \/ includes(condition, "+")
          \/ includes(condition, "?") \/ includes(condition, "|")
    THEN regexTestOr(
           regexAlternatives(replaceChar(replaceChar(condition, "*", ".*"), "+", ".+")),
           response, includes(response, condition))
  ELSE IF \E word \in repeatedWords(response) : includes(condition, word)
    THEN TRUE
  ELSE includes(response, condition)

matchesSingleCondition(response, condition) ==
  IF startsWith(condition, "contains:")
    THEN includes(response, trim(substring(condition, Len("contains:"))))
  ELSE IF startsWith(condition, "exact:")
    THEN response = trim(substring(condition, Len("exact:")))
  ELSE IF startsWith(condition, "starts:")
    THEN startsWith(response, trim(substring(condition, Len("starts:"))))
  ELSE IF startsWith(condition, "ends:")
    THEN endsWith(response, trim(substring(condition, Len("ends:"))))
  ELSE IF \/ includes(condition, "*") \/ includes(condition, "+")
          \/ includes(condition, "?") \/ includes(condition, "|")
    THEN regexTestOr(
           regexAlternatives(replaceChar(replaceChar(condition, "*", ".*"), "+", ".+")),
           response, FALSE)
  ELSE IF \E word \in repeatedWords(response) : includes(condition, word)
    THEN TRUE
  ELSE includes(response, condition)

\* the single conditions a condition stands for: its comma-separated options,
\* trimmed and lower-cased, or the lower-cased condition itself
conditionOptions(condition) ==
  IF includes(condition, ",")
  THEN LET options == splitOn(condition, ",")
       IN {toLowerCase(trim(options[i])) : i \in 1..Len(options)}
  ELSE {toLowerCase(condition)}

\* mutant: every option has to match (every instead of some)
matchesAnyOption_All(normalizedResponse, options) ==
  \A opt \in options : matchesSingleCondition(normalizedResponse, opt)

matchesAnyOption(normalizedResponse, options) ==
  \E opt \in options : matchesSingleCondition(normalizedResponse, opt)

\* mutant: the response is trimmed but not lower-cased
matchesCondition_RawResponse(response, condition) ==
  IF toLowerCase(condition) = "any" THEN TRUE
  ELSE matchesAnyOption(trim(response), conditionOptions(condition))

\* mutant: the wildcard is recognised in lower case only
matchesCondition_ExactAny(response, condition) ==
  IF condition = "any" THEN TRUE
  ELSE matchesAnyOption(trim(toLowerCase(response)), conditionOptions(condition))

matchesCondition(response, condition) ==
  IF toLowerCase(condition) = "any" THEN TRUE
  ELSE matchesAnyOption(trim(toLowerCase(response)), conditionOptions(condition))

(***************************************************************************)
(* JavaScript values.  null/undefined is the string Null, which no string  *)
(* of the model equals.  An object (Record<string, any>) is the sequence   *)
(* of its [key, value] entries in insertion order.                         *)
(***************************************************************************)
Null == "<null>"

\* JavaScript truthiness of a string | null | undefined
Truthy(v) == v # Null /\ v # ""

objKeys(o) == [i \in 1..Len(o) |-> o[i].key]

objHas(o, k) == \E i \in 1..Len(o) : o[i].key = k

objGet(o, k) == o[CHOOSE i \in 1..Len(o) : o[i].key = k].value

\* o[k] = v: an existing key keeps its position, a new key is appended
objSet(o, k, v) ==
  IF objHas(o, k)
  THEN [i \in 1..Len(o) |-> IF o[i].key = k THEN [key |-> k, value |-> v] ELSE o[i]]
  ELSE Append(o, [key |-> k, value |-> v])

\* arr.slice(-n)
sliceLast(arr, n) ==
  IF Len(arr) <= n THEN arr ELSE SubSeq(arr, Len(arr) - n + 1, Len(arr))

(***************************************************************************)
(* Conversation definitions (Business).  The authoring form only saves     *)
(* rules and knowledge items whose message / response is non-empty.        *)
(***************************************************************************)
Transition(c, t) == [condition |-> c, targetState |-> t]

SalesStates ==
  [greeting |->
     [name |-> "Greeting", question |-> "Hi, are you interested?",
      questionVariants |-> <<>>, expectedInputs |-> "", expectedKeywords |-> "yes, no",
      transitions |-> <<Transition("contains:yes", "ask_name"),
                        Transition("yes,no thanks", "done")>>],
   ask_name |->
     [name |-> "Ask Name", question |-> "What is your name?",
      questionVariants |-> <<"May I have your name?">>,
      expectedInputs |-> "Full name", expectedKeywords |-> "",
      transitions |-> <<Transition("Any", "done")>>],
   done |->
     [name |-> "Done", question |-> "Thanks, bye!",
      questionVariants |-> <<>>, expectedInputs |-> "Any feedback",
      expectedKeywords |-> "",
      transitions |-> <<>>]]

\* every transition target is a defined state
SalesFlow ==
  [businessName |-> "Acme", businessType |-> "retail", useCase |-> "sales",
   agentRole |-> "assistant", tonePreference |-> "",
   initialState |-> "greeting",
   stateDefinitions |-> SalesStates,
   disqualificationRules |->
     <<[condition |-> "contains:cancel", message |-> "sorry"],
       [condition |-> "not interested", message |-> "bye"]>>,
   knowledgeBase |->
     <<[pattern |-> "where are you located",
        response |-> "Hi {userName}, we are in {city}."]>>]

\* the same flow with a transition whose target state is not defined
BrokenFlow ==
  [SalesFlow EXCEPT !.stateDefinitions.greeting.transitions =
     Append(@, Transition("contains:maybe", "ghost"))]

Businesses == {SalesFlow, BrokenFlow}

\* a support desk: a state that asks for an objection, a state without a
\* transitions property, a state with an empty transition list, a condition
\* and a knowledge pattern that are no valid regular expressions
SupportStates ==
  [company |->
     [name |-> "Company", question |-> "Which company are you with?",
      questionVariants |-> <<>>, expectedInputs |-> "Your company",
      expectedKeywords |-> "",
      transitions |-> <<Transition("contains:acme", "concern"),
                        Transition("later", "closed")>>],
   concern |->
     [name |-> "Concern", question |-> "What holds you back?",
      questionVariants |-> <<>>, expectedInputs |-> "Reason or objection",
      expectedKeywords |-> "",
      transitions |-> <<Transition("contains:price", "leaf")>>],
   leaf |->
     [name |-> "Leaf", question |-> "Thank you.",
      questionVariants |-> <<>>, expectedInputs |-> "", expectedKeywords |-> ""],
   closed |->
     [name |-> "Closed", question |-> "Talk to you later.",
      questionVariants |-> <<>>, expectedInputs |-> "", expectedKeywords |-> "",
      transitions |-> <<>>]]

\* an intake form: eight states in a cycle, each left on any answer
FormState(hint, target) ==
  [name |-> "", question |-> "Next?", questionVariants |-> <<>>,
   expectedInputs |-> hint, expectedKeywords |-> "",
   transitions |-> <<Transition("any", target)>>]

FormStates ==
  [person |-> FormState("Full name", "firm"),
   firm   |-> FormState("Business email", "email"),
   email  |-> FormState("Email", "desk"),
   desk   |-> FormState("Company phone", "pause"),
   pause  |-> FormState("", "taste"),
   taste  |-> FormState("Product interest", "age"),
   age    |-> FormState("Age", "order"),
   order  |-> FormState("Order feedback", "person")]

FormFlow ==
  [businessName |-> "Intake", businessType |-> "office", useCase |-> "form",
   agentRole |-> "clerk", tonePreference |-> "",
   initialState |-> "person",
   stateDefinitions |-> FormStates,
   disqualificationRules |-> <<>>,
   knowledgeBase |-> <<>>]

SupportFlow ==
  [businessName |-> "Desk", businessType |-> "training", useCase |-> "support",
   agentRole |-> "assistant", tonePreference |-> "",
   initialState |-> "company",
   stateDefinitions |-> SupportStates,
   disqualificationRules |->
     <<[condition |-> "?", message |-> "no questions"],
       [condition |-> "contains:lawyer", message |-> "sorry"]>>,
   knowledgeBase |->
     <<[pattern |-> "c++",
        response |-> "C++ for {userCompany} in {city}: ask your {constructor}."],
       [pattern |-> "Where are you located",
        response |-> "We are in {userCompany}."],
       [pattern |-> "the fee", response |-> "There is no fee."]>>]

hasState(defs, id) == id \in DOMAIN defs

\* whether a state definition has a transitions property at all
declaresTransitions(def) == "transitions" \in DOMAIN def

(***************************************************************************)
(* class AgentMemory.  An operator that mutates the object returns the     *)
(* object after the call, or [m |-> object, ret |-> returned value].       *)
(***************************************************************************)
AgentMemory(business) ==
  [stateDefinitions      |-> business.stateDefinitions,
   userResponses         |-> <<>>,
   currentState          |-> IF Truthy(business.initialState)
                             THEN business.initialState ELSE "greeting",
   transitionHistory     |-> <<>>,
   disqualificationRules |-> business.disqualificationRules,
   knowledgeBase         |-> business.knowledgeBase,
   tokenUsage            |-> [totalTokens |-> 0, inputTokens |-> 0,
                              outputTokens |-> 0, estimatedCost |-> 0],
   contextualData        |-> <<[key |-> "businessName", value |-> business.businessName],
                               [key |-> "businessType", value |-> business.businessType],
                               [key |-> "useCase", value |-> business.useCase],
                               [key |-> "agentRole", value |-> business.agentRole],
                               [key |-> "tonePreference", value |-> business.tonePreference]>>,
   currentPrompt         |-> "",
   usedLLM               |-> FALSE]

getTokenUsage(m) == m.tokenUsage

getTransitionCount(m) == Len(m.transitionHistory)

wasLLMUsed(m) == m.usedLLM

setLLMUsed(m, used) == [m EXCEPT !.usedLLM = used]

setCurrentPrompt(m, prompt) == [m EXCEPT !.currentPrompt = prompt]

getCurrentState(m) == m.currentState

currentStateDefined(m) == hasState(m.stateDefinitions, m.currentState)

(***************************************************************************)
(* apiConfig: the rates are per 1000 tokens, in thousandths of a dollar,   *)
(* so tokens * rate is a cost in millionths of a dollar.                   *)
(***************************************************************************)
defaultModel == "gpt-3.5-turbo"

gpt35Input == 2

gpt35Output == 2

gpt4Input == 30

gpt4Output == 60

calculateTokenCost(inputTokens, outputTokens, model) ==
  IF startsWith(model, "gpt-4")
  THEN inputTokens * gpt4Input + outputTokens * gpt4Output
  ELSE inputTokens * gpt35Input + outputTokens * gpt35Output

\* mutant: the total grows by the input estimate only
updateTokenUsage_InputOnly(m, inputTokens, outputTokens) ==
  LET inTok  == m.tokenUsage.inputTokens + inputTokens
      outTok == m.tokenUsage.outputTokens + outputTokens
  IN [m EXCEPT !.tokenUsage =
        [inputTokens   |-> inTok,
         outputTokens  |-> outTok,
         totalTokens   |-> m.tokenUsage.totalTokens + inputTokens,
         estimatedCost |-> calculateTokenCost(inTok, outTok, defaultModel)]]

updateTokenUsage(m, inputTokens, outputTokens) ==
  LET inTok  == m.tokenUsage.inputTokens + inputTokens
      outTok == m.tokenUsage.outputTokens + outputTokens
  IN [m EXCEPT !.tokenUsage =
        [inputTokens   |-> inTok,
         outputTokens  |-> outTok,
         totalTokens   |-> m.tokenUsage.totalTokens + (inputTokens + outputTokens),
         estimatedCost |-> calculateTokenCost(inTok, outTok, defaultModel)]]

\* mutant: the email category is tried before the company category
contextKey_EmailFirst(expectedType) ==
  IF includes(expectedType, "name") THEN "userName"
  ELSE IF includes(expectedType, "email") THEN "userEmail"
  ELSE IF includes(expectedType, "company") \/ includes(expectedType, "business")
    THEN "userCompany"
  ELSE IF includes(expectedType, "phone") THEN "userPhone"
  ELSE IF includes(expectedType, "preference") \/ includes(expectedType, "interest")
    THEN "userPreference"
  ELSE IF includes(expectedType, "order") \/ includes(expectedType, "product")
    THEN "userOrder"
  ELSE IF includes(expectedType, "address") THEN "userAddress"
  ELSE IF includes(expectedType, "feedback") THEN "userFeedback"
  ELSE "user" \o UpperChar(CharAt(expectedType, 1)) \o substring(expectedType, 1)

\* the contextual-data key a response is stored under, by expected input type
contextKey(expectedType) ==
  IF includes(expectedType, "name") THEN "userName"
  ELSE IF includes(expectedType, "company") \/ includes(expectedType, "business")
    THEN "userCompany"
  ELSE IF includes(expectedType, "email") THEN "userEmail"
  ELSE IF includes(expectedType, "phone") THEN "userPhone"
  ELSE IF includes(expectedType, "preference") \/ includes(expectedType, "interest")
    THEN "userPreference"
  ELSE IF includes(expectedType, "order") \/ includes(expectedType, "product")
    THEN "userOrder"
  ELSE IF includes(expectedType, "address") THEN "userAddress"
  ELSE IF includes(expectedType, "feedback") THEN "userFeedback"
  ELSE "user" \o UpperChar(CharAt(expectedType, 1)) \o substring(expectedType, 1)

\* mutant: no form data update is logged
storeResponse_NoLog(m, questionId, response, now) ==
  LET m1 == [m EXCEPT !.userResponses =
               objSet(@, questionId,
                      [value |-> response, valid |-> TRUE, timestamp |-> now])]
  IN IF currentStateDefined(m1)
        /\ Truthy(m1.stateDefinitions[m1.currentState].expectedInputs)
     THEN LET expectedType ==
                toLowerCase(m1.stateDefinitions[m1.currentState].expectedInputs)
          IN [m1 EXCEPT
                !.contextualData = objSet(@, contextKey(expectedType), response)]
     ELSE m1

storeResponse(m, questionId, response, now) ==
  LET m1 == [m EXCEPT !.userResponses =
               objSet(@, questionId,
                      [value |-> response, valid |-> TRUE, timestamp |-> now])]
  IN IF currentStateDefined(m1)
        /\ Truthy(m1.stateDefinitions[m1.currentState].expectedInputs)
     THEN LET expectedType ==
                toLowerCase(m1.stateDefinitions[m1.currentState].expectedInputs)
          IN [m1 EXCEPT
                !.contextualData = objSet(@, contextKey(expectedType), response),
                !.transitionHistory =
                   Append(@, [from   |-> m1.currentState,
                              to     |-> m1.currentState,
                              reason |-> "Form data update: " \o expectedType])]
     ELSE m1

\* the least element of a set of positive indexes, 0 for the empty set: the
\* element a for-loop with an early return stops at
firstOf(S) == IF S = {} THEN 0 ELSE CHOOSE i \in S : \A j \in S : i <= j

\* mutant: the loop does not stop at the first match, the last match wins
firstMatch_LastWins(transitions, response) ==
  LET S == {i \in 1..Len(transitions) :
              matchesCondition(response, transitions[i].condition)}
  IN IF S = {} THEN 0 ELSE CHOOSE i \in S : \A j \in S : j <= i

\* index of the first transition whose condition matches, 0 when none does
firstMatch(transitions, response) ==
  firstOf({i \in 1..Len(transitions) :
             matchesCondition(response, transitions[i].condition)})

\* mutant: the transition is logged but the current state is not advanced
takeTransition_NoAdvance(m, transition) ==
  [m   |-> [m EXCEPT
              !.transitionHistory =
                 Append(@, [from   |-> m.currentState,
                            to     |-> transition.targetState,
                            reason |-> transition.condition])],
   ret |-> transition.targetState]

\* mutant: the current state becomes the display name of the target, not its id
takeTransition_ToName(m, transition) ==
  [m   |-> [m EXCEPT
              !.transitionHistory =
                 Append(@, [from   |-> m.currentState,
                            to     |-> transition.targetState,
                            reason |-> transition.condition]),
              !.currentState =
                 IF hasState(m.stateDefinitions, transition.targetState)
                 THEN m.stateDefinitions[transition.targetState].name
                 ELSE transition.targetState],
   ret |-> transition.targetState]

\* the body of getNextState's loop for the matching transition
takeTransition(m, transition) ==
  [m   |-> [m EXCEPT
              !.transitionHistory =
                 Append(@, [from   |-> m.currentState,
                            to     |-> transition.targetState,
                            reason |-> transition.condition]),
              !.currentState = transition.targetState],
   ret |-> transition.targetState]

\* mutant: without a match the state is kept, but the stay is logged
nextStateAt_LogsStay(m, transitions, i) ==
  IF i = 0
  THEN [m   |-> [m EXCEPT !.transitionHistory =
                    Append(@, [from |-> m.currentState, to |-> m.currentState,
                               reason |-> "no match"])],
        ret |-> Null]
  ELSE takeTransition(m, transitions[i])

nextStateAt(m, transitions, i) ==
  IF i = 0 THEN [m |-> m, ret |-> Null] ELSE takeTransition(m, transitions[i])

getNextState(m, response) ==
  IF ~currentStateDefined(m) THEN [m |-> m, ret |-> Null]
  ELSE IF ~declaresTransitions(m.stateDefinitions[m.currentState])
    THEN [m |-> m, ret |-> Null]
  ELSE nextStateAt(m, m.stateDefinitions[m.currentState].transitions,
                   firstMatch(m.stateDefinitions[m.currentState].transitions, response))

WordChars == CharsOf(LowerChars) \cup CharsOf(UpperChars) \cup CharsOf("0123456789_")

IsWordChar(c) == c \in WordChars

\* length of the longest prefix of s made of word characters
RECURSIVE wordPrefix(_)
wordPrefix(s) ==
  IF s # "" /\ IsWordChar(CharAt(s, 1)) THEN 1 + wordPrefix(SubSeq(s, 2, Len(s))) ELSE 0

\* the properties every object inherits from Object.prototype
ObjectPrototypeMethods ==
  {"hasOwnProperty", "isPrototypeOf", "propertyIsEnumerable", "toLocaleString",
   "toString", "valueOf", "__defineGetter__", "__defineSetter__",
   "__lookupGetter__", "__lookupSetter__"}

\* String(o[k]) for a property k the object o inherits, Null when o[k] is undefined
inheritedProperty(k) ==
  IF k = "constructor" THEN "function Object() { [native code] }"
  ELSE IF k = "__proto__" THEN "[object Object]"
  ELSE IF k \in ObjectPrototypeMethods THEN "function " \o k \o "() { [native code] }"
  ELSE Null

\* String(o[k]), Null when o[k] is undefined: own properties shadow inherited ones
propertyText(o, k) == IF objHas(o, k) THEN objGet(o, k) ELSE inheritedProperty(k)

\* the replacement callback: the value when it is not undefined, else the match
replacementFor(value, match) == IF value # Null THEN value ELSE match

\* text.replace(/{([a-zA-Z0-9_]+)}/g, ...) over the contextual data
RECURSIVE replaceContextVariables(_, _)
replaceContextVariables(m, text) ==
  IF text = "" THEN ""
  ELSE LET n == wordPrefix(SubSeq(text, 2, Len(text)))
       IN IF CharAt(text, 1) = "{" /\ n > 0 /\ n + 2 <= Len(text)
             /\ CharAt(text, n + 2) = "}"
          THEN replacementFor(propertyText(m.contextualData, SubSeq(text, 2, n + 1)),
                              SubSeq(text, 1, n + 2))
                 \o replaceContextVariables(m, SubSeq(text, n + 3, Len(text)))
          ELSE CharAt(text, 1) \o replaceContextVariables(m, SubSeq(text, 2, Len(text)))

\* /[\|\+\*\?\(\)\[\]]/.test(pattern)
hasRegexChar(pattern) ==
  \E i \in 1..Len(pattern) : CharAt(pattern, i) \in {"|", "+", "*", "?", "(", ")", "[", "]"}

\* mutant: an item whose pattern does not compile is skipped
knowledgeItemMatches_NoFallback(item, normalizedQuery) ==
  IF hasRegexChar(item.pattern)
  THEN regexTestOr(regexAlternatives(item.pattern), normalizedQuery, FALSE)
  ELSE LET patternTerms == splitWhitespace(toLowerCase(item.pattern))
       IN \E i \in 1..Len(patternTerms) :
            includes(normalizedQuery, patternTerms[i]) /\ Len(patternTerms[i]) > 3

\* mutant: terms of 3 characters count as well
knowledgeItemMatches_ShortTerms(item, normalizedQuery) ==
  IF hasRegexChar(item.pattern)
  THEN regexTestOr(regexAlternatives(item.pattern), normalizedQuery,
                   includes(normalizedQuery, toLowerCase(item.pattern)))
  ELSE LET patternTerms == splitWhitespace(toLowerCase(item.pattern))
       IN \E i \in 1..Len(patternTerms) :
            includes(normalizedQuery, patternTerms[i]) /\ Len(patternTerms[i]) > 2

\* whether one knowledge item matches the normalized query
knowledgeItemMatches(item, normalizedQuery) ==
  IF hasRegexChar(item.pattern)
  THEN regexTestOr(regexAlternatives(item.pattern), normalizedQuery,
                   includes(normalizedQuery, toLowerCase(item.pattern)))
  ELSE LET patternTerms == splitWhitespace(toLowerCase(item.pattern))
       IN \E i \in 1..Len(patternTerms) :
            includes(normalizedQuery, patternTerms[i]) /\ Len(patternTerms[i]) > 3

\* index of the first knowledge item that matches, 0 when none does
firstKnowledgeItem(knowledgeBase, normalizedQuery) ==
  firstOf({i \in 1..Len(knowledgeBase) :
             knowledgeItemMatches(knowledgeBase[i], normalizedQuery)})

knowledgeResponseAt(m, i) ==
  IF i = 0 THEN Null ELSE replaceContextVariables(m, m.knowledgeBase[i].response)

findKnowledgeBaseResponse(m, query) ==
  knowledgeResponseAt(m, firstKnowledgeItem(m.knowledgeBase, trim(toLowerCase(query))))

\* index of the first disqualification rule that matches, 0 when none does
firstRule(rules, response) ==
  firstOf({i \in 1..Len(rules) : matchesCondition(response, rules[i].condition)})

disqualifiedAt(rules, i) ==
  IF i = 0 THEN [disqualified |-> FALSE, message |-> Null]
  ELSE [disqualified |-> TRUE, message |-> rules[i].message]

\* [disqualified, message]; message is Null when not disqualified
isDisqualified(m, response) ==
  disqualifiedAt(m.disqualificationRules, firstRule(m.disqualificationRules, response))

\* the values getNextQuestion may return (Math.random picks among the variants)
getNextQuestion(m) ==
  IF ~currentStateDefined(m) THEN {Null}
  ELSE LET def == m.stateDefinitions[m.currentState]
       IN IF Len(def.questionVariants) > 0
          THEN {def.question} \cup {def.questionVariants[i] : i \in 1..Len(def.questionVariants)}
          ELSE {IF Truthy(def.question) THEN def.question ELSE Null}

getRelevantResponses(m) == sliceLast(m.userResponses, 7)

\* stateDefinition is <<>> for the {} of an undefined state
buildMinimalContext(m) ==
  [currentState      |-> m.currentState,
   relevantResponses |-> getRelevantResponses(m),
   stateDefinition   |-> IF currentStateDefined(m)
                         THEN <<m.stateDefinitions[m.currentState]>> ELSE <<>>,
   recentTransitions |-> sliceLast(m.transitionHistory, 5),
   contextualData    |-> m.contextualData]

\* the business-identity keys of the contextual data
identityKeys == {"businessName", "businessType", "useCase", "agentRole", "tonePreference"}

\* s without the n characters at index i; s itself when i = 0
cutAt(s, i, n) == IF i = 0 THEN s ELSE SubSeq(s, 1, i - 1) \o SubSeq(s, i + n, Len(s))

\* s.replace(t, ''): the first occurrence of t is removed
removeFirst(s, t) ==
  cutAt(s, firstOf({i \in 1..(Len(s) - Len(t) + 1) : SubSeq(s, i, i + Len(t) - 1) = t}),
        Len(t))

\* the question names a stored fact: some key other than the identity keys has a
\* truthy value and its name without 'user' occurs in the question
asksKnownData(contextualData, response) ==
  \E i \in 1..Len(contextualData) :
    /\ contextualData[i].key \notin identityKeys
    /\ Truthy(contextualData[i].value)
    /\ includes(toLowerCase(response),
                removeFirst(toLowerCase(contextualData[i].key), "user"))

OpenEndedHints == {"reason", "objection", "explanation", "description", "feedback"}

expectsComplexInput(expectedInputs) ==
  \E hint \in OpenEndedHints : includes(expectedInputs, hint)

expectsAny(expectedInputs, expectedKeywords) ==
  \/ expectedInputs = "any"
  \/ includes(expectedInputs, "any response")
  \/ expectedKeywords = "any"
  \/ includes(expectedKeywords, "any")

hasAnyTransition(transitions) ==
  \E i \in 1..Len(transitions) : trim(toLowerCase(transitions[i].condition)) = "any"

\* mutant: the open-ended hints are not looked at
shouldUseLLMIn_NoOpenEnded(def, response) ==
  IF expectsAny(toLowerCase(def.expectedInputs), toLowerCase(def.expectedKeywords))
    THEN IF hasAnyTransition(def.transitions) THEN FALSE
         ELSE firstMatch(def.transitions, response) = 0
  ELSE firstMatch(def.transitions, response) = 0

\* mutant: only the first transition of the state is tried
shouldUseLLMIn_FirstOnly(def, response) ==
  IF expectsComplexInput(toLowerCase(def.expectedInputs)) THEN TRUE
  ELSE IF def.transitions = <<>> THEN TRUE
  ELSE ~matchesCondition(response, def.transitions[1].condition)

\* shouldUseLLM from the hints on, in a state that declares transitions
shouldUseLLMIn(def, response) ==
  IF expectsComplexInput(toLowerCase(def.expectedInputs)) THEN TRUE
  ELSE IF expectsAny(toLowerCase(def.expectedInputs), toLowerCase(def.expectedKeywords))
    THEN IF hasAnyTransition(def.transitions) THEN FALSE
         ELSE firstMatch(def.transitions, response) = 0
  ELSE firstMatch(def.transitions, response) = 0

\* mutant: the state is looked at first, the question rule last
shouldUseLLM_StateFirst(m, response) ==
  IF ~currentStateDefined(m) THEN TRUE
  ELSE IF ~declaresTransitions(m.stateDefinitions[m.currentState]) THEN TRUE
  ELSE IF shouldUseLLMIn(m.stateDefinitions[m.currentState], response) THEN TRUE
  ELSE IF endsWith(response, "?") /\ Len(response) > 10
    THEN ~asksKnownData(m.contextualData, response)
  ELSE FALSE

shouldUseLLM(m, response) ==
  IF endsWith(response, "?") /\ Len(response) > 10
    THEN ~asksKnownData(m.contextualData, response)
  ELSE IF ~currentStateDefined(m) THEN TRUE
  ELSE IF ~declaresTransitions(m.stateDefinitions[m.currentState]) THEN TRUE
  ELSE shouldUseLLMIn(m.stateDefinitions[m.currentState], response)

(***************************************************************************)
(* class KaniService                                                       *)
(***************************************************************************)
businessKeys == {"businessName", "businessType", "useCase", "agentRole", "tonePreference"}

\* lines.join('\n')
RECURSIVE joinLines(_)
joinLines(lines) ==
  IF lines = <<>> THEN ""
  ELSE IF Len(lines) = 1 THEN lines[1]
  ELSE lines[1] \o "\n" \o joinLines(Tail(lines))

generateSystemPrompt(business, context) ==
  LET defined         == context.stateDefinition # <<>>
      question        == IF defined THEN context.stateDefinition[1].question ELSE ""
      expectedInputs  == IF defined THEN context.stateDefinition[1].expectedInputs ELSE ""
      expectedKeywords == IF defined THEN context.stateDefinition[1].expectedKeywords ELSE ""
      responsesText   ==
        joinLines([i \in 1..Len(context.relevantResponses) |->
                     "- " \o context.relevantResponses[i].key \o ": \""
                          \o context.relevantResponses[i].value.value \o "\""])
      contextEntries  == SelectSeq(context.contextualData,
                                   LAMBDA e : e.key \notin businessKeys)
      contextDataText ==
        IF Len(contextEntries) > 0
        THEN joinLines([i \in 1..Len(contextEntries) |->
                          "- " \o contextEntries[i].key \o ": " \o contextEntries[i].value])
        ELSE "No additional user data collected yet."
  IN "You are a virtual assistant for "
     \o business.businessName
     \o ", a "
     \o business.businessType
     \o " business.\n\nROLE: "
     \o business.agentRole
     \o " helping with "
     \o business.useCase
     \o "\n\nCURRENT STATE: "
     \o context.currentState
     \o "\nCURRENT QUESTION: \""
     \o question
     \o "\"\nEXPECTED INPUTS: "
     \o expectedInputs
     \o "\nEXPECTED KEYWORDS: "
     \o expectedKeywords
     \o "\n\nUSER CONTEXT (FORM DATA - MOST IMPORTANT):\n"
     \o contextDataText
     \o "\n\nRECENT RESPONSES:\n"
     \o responsesText
     \o "\n\nRESPONSE GUIDELINES:\n1. Use "
     \o (IF Truthy(business.tonePreference) THEN business.tonePreference
         ELSE "professional")
     \o " tone\n2. Be very concise (under 50 words)\n3. Stay focused on answeri"
     \o "ng the current question \n4. Reference the form data whenever relevant"
     \o "\n5. Do not ask new questions unless absolutely necessary\n6. If user "
     \o "is off-topic, briefly acknowledge then guide back to the current quest"
     \o "ion\n7. If user asks about form data they've provided, answer directly"
     \o " using that data\n8. Avoid unnecessary explanations or elaborations\n9"
     \o ". Always relate your response to the user context data whenever possib"
     \o "le to maintain continuity\n10. When using LLM, try to tie responses ba"
     \o "ck to previous form data for token optimization\n11. Preserve correct "
     \o "spelling of words - do not truncate words with double letters\n12. IMP"
     \o "ORTANT: For words like \"well\", \"address\", \"follow\", etc., preser"
     \o "ve all letters\n\nAfter responding, guide the user back to the convers"
     \o "ation flow established in the current question."

\* Math.ceil(n / 4)
tokenEstimate(n) == (n + 3) \div 4

\* length of the run of characters equal to s[1] at the start of s
RECURSIVE runLength(_)
runLength(s) ==
  IF Len(s) >= 2 /\ CharAt(s, 2) = CharAt(s, 1)
  THEN 1 + runLength(SubSeq(s, 2, Len(s))) ELSE IF s = "" THEN 0 ELSE 1

\* response.replace(/(.)\1{2,}/g, '$1$1')
RECURSIVE fixDuplication(_)
fixDuplication(s) ==
  IF s = "" THEN ""
  ELSE LET n == runLength(s)
           c == CharAt(s, 1)
       IN (IF n >= 3 /\ c \notin {"\n", "\r"} THEN c \o c ELSE SubSeq(s, 1, n))
            \o fixDuplication(SubSeq(s, n + 1, Len(s)))

targetAt(transitions, i) == IF i = 0 THEN Null ELSE transitions[i].targetState

\* the first transition of the state whose target's display name the reply mentions
mentionedTarget(business, transitions, llmResponse) ==
  targetAt(transitions,
           firstOf({i \in 1..Len(transitions) :
                      /\ hasState(business.stateDefinitions, transitions[i].targetState)
                      /\ Truthy(business.stateDefinitions[transitions[i].targetState].name)
                      /\ includes(toLowerCase(llmResponse),
                                  toLowerCase(business.stateDefinitions[
                                                transitions[i].targetState].name))}))

\* determineStateFromLLMResponse after its call of getNextState returned r
stateFromReply(business, r, llmResponse) ==
  IF Truthy(r.ret) THEN r
  ELSE [m   |-> r.m,
        ret |-> IF /\ buildMinimalContext(r.m).stateDefinition # <<>>
                   /\ declaresTransitions(buildMinimalContext(r.m).stateDefinition[1])
                THEN mentionedTarget(
                       business,
                       buildMinimalContext(r.m).stateDefinition[1].transitions,
                       llmResponse)
                ELSE Null]

determineStateFromLLMResponse(business, m, llmResponse, userInput) ==
  stateFromReply(business, getNextState(m, userInput), llmResponse)

Result(response, nextState, disqualified) ==
  [response |-> response, nextState |-> nextState, disqualified |-> disqualified]

\* mutant: the knowledge-base return forgets setLLMUsed(false)
knowledgeTurn_KeepsFlag(m, knowledgeResponse) ==
  [m       |-> m,
   done    |-> TRUE,
   outcome |-> "knowledge",
   result  |-> Result(knowledgeResponse, getCurrentState(m), FALSE),
   inputTokenEstimate |-> 0]

\* processUserInput, a knowledge-base hit
knowledgeTurn(m, knowledgeResponse) ==
  [m       |-> setLLMUsed(m, FALSE),
   done    |-> TRUE,
   outcome |-> "knowledge",
   result  |-> Result(knowledgeResponse, getCurrentState(m), FALSE),
   inputTokenEstimate |-> 0]

\* processUserInput, a disqualifying input
disqualifiedTurn(m, disqualificationCheck) ==
  [m       |-> m,
   done    |-> TRUE,
   outcome |-> "disqualified",
   result  |-> Result(IF Truthy(disqualificationCheck.message)
                      THEN disqualificationCheck.message
                      ELSE "Sorry, we cannot proceed further.",
                      Null, TRUE),
   inputTokenEstimate |-> 0]

\* processUserInput, a rule-based transition to a defined state: m is the
\* memory after getNextState
transitionTurn(m, nextState) ==
  [m       |-> setLLMUsed(m, FALSE),
   done    |-> TRUE,
   outcome |-> "transition",
   result  |-> Result(m.stateDefinitions[m.currentState].question, nextState, FALSE),
   inputTokenEstimate |-> 0]

\* mutant: the input tokens are counted when the request is issued
awaitTurn_CountsEarly(m, prompt, input) ==
  [m       |-> updateTokenUsage(setCurrentPrompt(m, prompt),
                                tokenEstimate(Len(prompt) + Len(input)), 0),
   done    |-> FALSE,
   outcome |-> "await",
   result  |-> Result("", Null, FALSE),
   inputTokenEstimate |-> tokenEstimate(Len(prompt) + Len(input))]

\* processUserInput from setCurrentPrompt to the await
awaitTurn(m, prompt, input) ==
  [m       |-> setCurrentPrompt(m, prompt),
   done    |-> FALSE,
   outcome |-> "await",
   result  |-> Result("", Null, FALSE),
   inputTokenEstimate |-> tokenEstimate(Len(prompt) + Len(input))]

\* processUserInput, the fallback up to the await of createChatCompletion
fallbackTurn(business, openai, m, input) ==
  LET m1 == setLLMUsed(m, TRUE)
  IN IF ~openai
     THEN [m       |-> m1,
           done    |-> TRUE,
           outcome |-> "noClient",
           result  |-> Result("I'm not fully configured to respond intelligently yet. "
                                \o "Please check your OpenAI API key configuration.",
                              Null, FALSE),
           inputTokenEstimate |-> 0]
     ELSE awaitTurn(m1, generateSystemPrompt(business, buildMinimalContext(m1)), input)

\* mutant: the matched transition is ignored and the model is always asked
afterNextState_AlwaysFallback(business, openai, next, input) ==
  fallbackTurn(business, openai, next.m, input)

\* processUserInput after getNextState returned next
afterNextState(business, openai, next, input) ==
  IF Truthy(next.ret) /\ currentStateDefined(next.m)
  THEN transitionTurn(next.m, next.ret)
  ELSE fallbackTurn(business, openai, next.m, input)

\* mutant: the response is stored before the disqualification check is acted on
afterDisqualificationCheck_RecordsFirst(business, openai, m, input, now, disqualificationCheck) ==
  IF disqualificationCheck.disqualified
  THEN disqualifiedTurn(storeResponse(m, getCurrentState(m), input, now),
                        disqualificationCheck)
  ELSE afterNextState(business, openai,
                      getNextState(storeResponse(m, getCurrentState(m), input, now),
                                   input),
                      input)

\* mutant: the response is not stored before the transition is looked up
afterDisqualificationCheck_NoRecord(business, openai, m, input, now, disqualificationCheck) ==
  IF disqualificationCheck.disqualified
  THEN disqualifiedTurn(m, disqualificationCheck)
  ELSE afterNextState(business, openai, getNextState(m, input), input)

\* processUserInput after isDisqualified returned disqualificationCheck
afterDisqualificationCheck(business, openai, m, input, now, disqualificationCheck) ==
  IF disqualificationCheck.disqualified
  THEN disqualifiedTurn(m, disqualificationCheck)
  ELSE afterNextState(business, openai,
                      getNextState(storeResponse(m, getCurrentState(m), input, now),
                                   input),
                      input)

\* mutant: the disqualification rules are checked before the knowledge base
afterKnowledgeBase_RulesFirst(business, openai, m, input, now, knowledgeResponse) ==
  IF isDisqualified(m, input).disqualified
  THEN disqualifiedTurn(m, isDisqualified(m, input))
  ELSE IF Truthy(knowledgeResponse) THEN knowledgeTurn(m, knowledgeResponse)
  ELSE afterDisqualificationCheck(business, openai, m, input, now,
                                  isDisqualified(m, input))

\* processUserInput after findKnowledgeBaseResponse returned knowledgeResponse
afterKnowledgeBase(business, openai, m, input, now, knowledgeResponse) ==
  IF Truthy(knowledgeResponse) THEN knowledgeTurn(m, knowledgeResponse)
  ELSE afterDisqualificationCheck(business, openai, m, input, now,
                                  isDisqualified(m, input))

\* processUserInput from its entry to its first return or to the await
processUserInput(business, openai, m, input, now) ==
  afterKnowledgeBase(business, openai, m, input, now,
                     findKnowledgeBaseResponse(m, input))

llmTurn(next, response) ==
  [m       |-> next.m,
   outcome |-> "llm",
   result  |-> Result(response, next.ret, FALSE)]

\* processUserInput from the token accounting on, response is the cleaned reply
afterCleanup(business, m, call, response) ==
  llmTurn(determineStateFromLLMResponse(
            business,
            updateTokenUsage(m, call.inputTokenEstimate, tokenEstimate(Len(response))),
            response, call.input),
          response)

\* processUserInput after the await, the completion carries choices[0].message.content
completionTurn(business, m, call, content) ==
  afterCleanup(business, m, call,
               fixDuplication(IF Truthy(content) THEN content
                              ELSE "I apologize, but I couldn't process that response."))

\* mutant: the catch block throws on, the call ends without a result
errorTurn_Rethrows(m) ==
  [m       |-> m,
   outcome |-> "error",
   result  |-> Result(Null, Null, FALSE)]

\* processUserInput, the catch block
errorTurn(m) ==
  [m       |-> m,
   outcome |-> "error",
   result  |-> Result("I'm having trouble understanding. Could you please rephrase that?",
                      Null, FALSE)]

(***************************************************************************)
(* The session as a state machine.                                         *)
(***************************************************************************)
MaxTurns == 3

Utterances ==
  {"yes", "no thanks", "hmm", "maybe",
   "where are you located?", "I want to cancel",
   "yes, cancel, not interested", "where do I cancel?"}

\* what the model may answer: choices[0].message.content
ModelContents == {"Okaaay, got it!!!", "We are done here.", ""}

VARIABLES
  business,    \* the conversation definition the service was constructed with
  openai,      \* whether the OpenAI client was initialised (an API key was given)
  memory,      \* the AgentMemory object
  pending,     \* the calls of processUserInput suspended at the await
  clock,       \* number of processUserInput calls started; the timestamp source
  modelCalls,  \* number of createChatCompletion requests issued
  turn,        \* the last call of processUserInput that returned
  terminated,  \* some call of processUserInput returned disqualified: true
  heap,        \* two services built from the same business: their AgentMemory objects
  peerPending, \* per service, its call of processUserInput suspended at the await
  alone,       \* service B as it is when only its own calls are made
  matchCall,   \* the last call of matchesCondition and what it returned
  modelName,   \* the model name the service was constructed with
  tokenCalls,  \* the calls of updateTokenUsage made so far: <<inputTokens, outputTokens>>
  policyCall,  \* the last call of shouldUseLLM and what it returned
  storeCall,   \* the last call of storeResponse: the session before and after it
  flowCall     \* the call of validateStateFlow: its flow, traversal, steps and outcome

\* the state of the two-service and of the matcher specifications
peerVars == <<heap, peerPending, alone>>

\* the state of the token-accounting and of the support-desk specifications
\* the state of the specifications that call one method at a time
probeVars == <<storeCall, flowCall>>

auxVars == <<modelName, tokenCalls, policyCall, probeVars>>

vars == <<business, openai, memory, pending, clock, modelCalls, turn, terminated,
          peerVars, matchCall, auxVars>>

\* the mutable part of the session, as observed at one instant
Snapshot(m, calls) ==
  [currentState      |-> m.currentState,
   userResponses     |-> m.userResponses,
   transitionHistory |-> m.transitionHistory,
   tokenUsage        |-> m.tokenUsage,
   contextualData    |-> m.contextualData,
   currentPrompt     |-> m.currentPrompt,
   usedLLM           |-> m.usedLLM,
   modelCalls        |-> calls]

\* the two KaniService objects of the two-service specification
Services == {"A", "B"}

\* matchesCondition has not been called
NoMatchCall == [made |-> FALSE, response |-> "", condition |-> "", result |-> FALSE]

\* validateStateFlow has not been called
NoFlowCall ==
  [status |-> "idle", business |-> [initialState |-> "", stateDefinitions |-> <<>>],
   stack |-> <<>>, reachable |-> {}, issues |-> {}, steps |-> 0]

\* shouldUseLLM has not been called
NoPolicyCall ==
  [made |-> FALSE, currentState |-> "", contextualData |-> <<>>, response |-> "",
   result |-> FALSE]

Init ==
  /\ business \in Businesses
  /\ openai \in BOOLEAN
  /\ memory = AgentMemory(business)
  /\ pending = <<>>
  /\ clock = 0
  /\ modelCalls = 0
  /\ turn = [input |-> "", outcome |-> "none", result |-> Result("", Null, FALSE),
             pre  |-> Snapshot(AgentMemory(business), 0),
             post |-> Snapshot(AgentMemory(business), 0)]
  /\ terminated = FALSE
  /\ heap = [cell \in Services |-> AgentMemory(business)]
  /\ peerPending = [service \in Services |-> <<>>]
  /\ alone = [memory |-> AgentMemory(business), pending |-> <<>>]
  /\ matchCall = NoMatchCall
  /\ modelName = defaultModel
  /\ tokenCalls = <<>>
  /\ policyCall = NoPolicyCall
  /\ storeCall = [made |-> FALSE, pending |-> FALSE, questionId |-> "", response |-> "",
                  pre |-> Snapshot(AgentMemory(business), 0)]
  /\ flowCall = NoFlowCall

\* a call of processUserInput runs to its return or to the await; the caller
\* serialises the calls of one session
\* the call returns: t is what the code computed, pre the session before the call
Returns(t, input, pre) ==
  /\ memory' = t.m
  /\ turn' = [input |-> input, outcome |-> t.outcome, result |-> t.result,
              pre |-> pre, post |-> Snapshot(t.m, modelCalls)]
  /\ terminated' = (terminated \/ t.result.disqualified)

\* the call issues its request to the model and is suspended
Suspends(t, input, pre) ==
  /\ memory' = t.m
  /\ pending' = Append(pending, [input |-> input, pre |-> pre,
                                 inputTokenEstimate |-> t.inputTokenEstimate])
  /\ modelCalls' = modelCalls + 1
  /\ UNCHANGED terminated

Begins(t, input, pre) ==
  IF t.done
  THEN Returns(t, input, pre) /\ UNCHANGED <<pending, modelCalls>>
  ELSE Suspends(t, input, pre) /\ UNCHANGED turn

ProcessUserInput(input) ==
  /\ pending = <<>>
  /\ clock < MaxTurns
  /\ clock' = clock + 1
  /\ Begins(processUserInput(business, openai, memory, input, clock + 1),
            input, Snapshot(memory, modelCalls))
  /\ UNCHANGED <<business, openai, peerVars, matchCall, auxVars>>

removeAt(seq, i) == SubSeq(seq, 1, i - 1) \o SubSeq(seq, i + 1, Len(seq))

\* the model answers a pending request
ModelReplies(i, content) ==
  /\ i \in 1..Len(pending)
  /\ Returns(completionTurn(business, memory, pending[i], content),
             pending[i].input, pending[i].pre)
  /\ pending' = removeAt(pending, i)
  /\ UNCHANGED <<business, openai, clock, modelCalls, peerVars, matchCall, auxVars>>

\* mutant: the request that failed is issued once more instead of ending the turn
Failed_Retries(i) ==
  /\ i \in 1..Len(pending)
  /\ modelCalls = pending[i].pre.modelCalls + 1
  /\ modelCalls' = modelCalls + 1
  /\ UNCHANGED <<business, openai, memory, pending, clock, turn, terminated,
                 peerVars, matchCall, auxVars>>

\* the request of a pending call fails
Failed(i) ==
  /\ i \in 1..Len(pending)
  /\ Returns(errorTurn(memory), pending[i].input, pending[i].pre)
  /\ pending' = removeAt(pending, i)
  /\ UNCHANGED <<business, openai, clock, modelCalls, peerVars, matchCall, auxVars>>

\* createChatCompletion rejects (network, quota)
ModelThrows(i) == Failed(i)

\* createChatCompletion resolves without choices, and line 670 throws
ModelNoChoices(i) == Failed(i)

Next ==
  \/ \E input \in Utterances : ProcessUserInput(input)
  \/ \E i \in 1..Len(pending) : \E content \in ModelContents : ModelReplies(i, content)
  \/ \E i \in 1..Len(pending) : ModelThrows(i)
  \/ \E i \in 1..Len(pending) : ModelNoChoices(i)

Spec == Init /\ [][Next]_vars

\* the request of some suspended call settles: in a behaviour of Spec such a
\* step is a ModelReplies, ModelThrows or ModelNoChoices step, and one of them
\* is enabled whenever a call is suspended
ModelSettles == \E i \in 1..Len(pending) : pending' = removeAt(pending, i)

\* the session when every request to the model eventually settles
FairSpec == Spec /\ WF_pending(ModelSettles)

(***************************************************************************)
(* Two services built from the same business, their calls interleaved.     *)
(* heap holds the AgentMemory objects; alone is service B run by itself:   *)
(* it makes B's calls, with B's inputs and B's answers from the model, and *)
(* none of A's.                                                            *)
(***************************************************************************)
MaxPeerTurns == 3

PeerUtterances == {"yes", "hmm", "where are you located?", "maybe"}

\* what the model may answer to either service
PeerContents == {"We are done here."}

\* mutant: the services keep their memory in one object shared by all of them
memoryOf_Shared(service) == "A"

\* the AgentMemory object of a service: the constructor gives each its own
memoryOf(service) == service

\* a suspended call: what the code holds in locals across the await
Call(t, input) == [input |-> input, inputTokenEstimate |-> t.inputTokenEstimate]

\* the call of processUserInput on a service runs to its return or the await
PeerBegins(service, t, input) ==
  /\ heap' = [heap EXCEPT ![memoryOf(service)] = t.m]
  /\ peerPending' = IF t.done THEN peerPending
                    ELSE [peerPending EXCEPT ![service] = <<Call(t, input)>>]

\* the same call made on the service that runs by itself
AloneBegins(t, input) ==
  alone' = [memory  |-> t.m,
            pending |-> IF t.done THEN <<>> ELSE <<Call(t, input)>>]

PeerProcessUserInput(service, input) ==
  /\ peerPending[service] = <<>>
  /\ clock < MaxPeerTurns
  /\ clock' = clock + 1
  /\ PeerBegins(service,
                processUserInput(business, openai, heap[memoryOf(service)], input,
                                 clock + 1),
                input)
  /\ IF service = "B"
     THEN AloneBegins(processUserInput(business, openai, alone.memory, input,
                                       clock + 1),
                      input)
     ELSE UNCHANGED alone
  /\ UNCHANGED <<business, openai, memory, pending, modelCalls, turn, terminated,
                 matchCall, auxVars>>

\* the service's suspended call resumes and returns; m is the memory after it
PeerReturns(service, m) ==
  /\ peerPending[service] # <<>>
  /\ heap' = [heap EXCEPT ![memoryOf(service)] = m]
  /\ peerPending' = [peerPending EXCEPT ![service] = <<>>]
  /\ UNCHANGED <<business, openai, memory, pending, clock, modelCalls, turn,
                 terminated, matchCall, auxVars>>

\* the model answers the request of a service
PeerModelReplies(service, content) ==
  /\ peerPending[service] # <<>>
  /\ PeerReturns(service,
                 completionTurn(business, heap[memoryOf(service)],
                                peerPending[service][1], content).m)
  /\ IF service = "B" /\ alone.pending # <<>>
     THEN alone' = [memory  |-> completionTurn(business, alone.memory,
                                               alone.pending[1], content).m,
                    pending |-> <<>>]
     ELSE UNCHANGED alone

\* the request of a service fails
PeerModelThrows(service) ==
  /\ peerPending[service] # <<>>
  /\ PeerReturns(service, errorTurn(heap[memoryOf(service)]).m)
  /\ IF service = "B" /\ alone.pending # <<>>
     THEN alone' = [memory |-> errorTurn(alone.memory).m, pending |-> <<>>]
     ELSE UNCHANGED alone

PeerNext ==
  \/ \E service \in Services : \E input \in PeerUtterances :
       PeerProcessUserInput(service, input)
  \/ \E service \in Services : \E content \in PeerContents :
       PeerModelReplies(service, content)
  \/ \E service \in Services : PeerModelThrows(service)

PeerSpec == Init /\ [][PeerNext]_vars

(***************************************************************************)
(* The matcher on its own: matchesCondition applied to an utterance and a  *)
(* condition, no session involved.                                         *)
(***************************************************************************)
MatchResponses ==
  {"", "yes please", "nope", "Yes, sure", "maybe", "ABC", "abc", " Abc ",
   "ok ok ok", "ok ok", "OK OK", "ok thanks", "yes?"}

MatchConditions ==
  {"any", "Any", "ANY", "yes,no", "yes, No", "yes,", "exact:abc", "exact: ABC",
   "contains:B", "a*c", "+yes", "okay", "ok", "?", "?es", "?,?es", "?,yes"}

MatchesCondition(response, condition) ==
  /\ matchCall' = [made |-> TRUE, response |-> response, condition |-> condition,
                   result |-> matchesCondition(response, condition)]
  /\ UNCHANGED <<business, openai, memory, pending, clock, modelCalls, turn,
                 terminated, peerVars, auxVars>>

MatcherNext ==
  \E response \in MatchResponses : \E condition \in MatchConditions :
    MatchesCondition(response, condition)

MatcherSpec == Init /\ [][MatcherNext]_vars

(***************************************************************************)
(* new KaniService(apiKey, business, modelName), before any call is made.  *)
(***************************************************************************)
ModelNames == {"gpt-3.5-turbo", "gpt-4", "gpt-4-turbo"}

NewSession(apiKey, b, name) ==
  /\ clock = 0
  /\ tokenCalls = <<>>
  /\ ~policyCall.made
  /\ business' = b
  /\ openai' = apiKey
  /\ modelName' = name
  /\ memory' = AgentMemory(b)
  /\ turn' = [turn EXCEPT !.pre = Snapshot(AgentMemory(b), 0),
                          !.post = Snapshot(AgentMemory(b), 0)]
  /\ UNCHANGED <<pending, clock, modelCalls, terminated, peerVars, matchCall,
                 tokenCalls, policyCall, probeVars>>

(***************************************************************************)
(* Token accounting on its own: updateTokenUsage applied to estimates.     *)
(***************************************************************************)
MaxTokenCalls == 3

\* <<inputTokens, outputTokens>> of one call
TokenEstimates == {<<40, 10>>, <<30, 5>>, <<0, 7>>, <<0, 0>>}

UpdateTokenUsage(inputTokens, outputTokens) ==
  /\ Len(tokenCalls) < MaxTokenCalls
  /\ memory' = updateTokenUsage(memory, inputTokens, outputTokens)
  /\ tokenCalls' = Append(tokenCalls, <<inputTokens, outputTokens>>)
  /\ UNCHANGED <<business, openai, pending, clock, modelCalls, turn, terminated,
                 peerVars, matchCall, modelName, policyCall, probeVars>>

TokenNext ==
  \/ \E name \in ModelNames : NewSession(openai, business, name)
  \/ \E estimate \in TokenEstimates : UpdateTokenUsage(estimate[1], estimate[2])

TokenSpec == Init /\ [][TokenNext]_vars

(***************************************************************************)
(* A session of the support desk, and the fallback policy consulted on the *)
(* session as the turns so far left it.                                    *)
(***************************************************************************)
MaxSupportTurns == 2

SupportUtterances ==
  {"Acme", "the price is high", "what is my company?", "later",
   "do you teach c++?", "where are you located?", "acme, ok?", "is this acme?"}

SupportContents == {"We are done here.", "Sure...\n\n\nBye!!!"}

ShouldUseLLM(response) ==
  /\ business = SupportFlow
  /\ pending = <<>>
  /\ policyCall' = [made |-> TRUE, currentState |-> memory.currentState,
                    contextualData |-> memory.contextualData, response |-> response,
                    result |-> shouldUseLLM(memory, response)]
  /\ UNCHANGED <<business, openai, memory, pending, clock, modelCalls, turn,
                 terminated, peerVars, matchCall, modelName, tokenCalls, probeVars>>

SupportTurn(input) ==
  /\ business = SupportFlow
  /\ ~policyCall.made
  /\ clock < MaxSupportTurns
  /\ ProcessUserInput(input)

SupportNext ==
  \/ NewSession(TRUE, SupportFlow, defaultModel)
  \/ \E input \in SupportUtterances : SupportTurn(input)
  \/ \E i \in 1..Len(pending) : \E content \in SupportContents : ModelReplies(i, content)
  \/ \E i \in 1..Len(pending) : ModelThrows(i)
  \/ \E response \in SupportUtterances : ShouldUseLLM(response)

SupportSpec == Init /\ [][SupportNext]_vars

(***************************************************************************)
(* The recording of a turn on its own: processUserInput calls              *)
(* storeResponse for the current state and then getNextState, with the     *)
(* same utterance (lines 612 and 615).                                     *)
(***************************************************************************)
MaxStoreCalls == 9

FormResponses == {"Ann", "x@y.z"}

StoreResponse(response) ==
  /\ business = FormFlow
  /\ ~storeCall.pending
  /\ clock < MaxStoreCalls
  /\ clock' = clock + 1
  /\ memory' = storeResponse(memory, getCurrentState(memory), response, clock + 1)
  /\ storeCall' = [made |-> TRUE, pending |-> TRUE,
                   questionId |-> getCurrentState(memory), response |-> response,
                   pre |-> Snapshot(memory, modelCalls)]
  /\ UNCHANGED <<business, openai, pending, modelCalls, turn, terminated, peerVars,
                 matchCall, modelName, tokenCalls, policyCall, flowCall>>

GetNextState ==
  /\ storeCall.pending
  /\ memory' = getNextState(memory, storeCall.response).m
  /\ storeCall' = [storeCall EXCEPT !.pending = FALSE]
  /\ UNCHANGED <<business, openai, pending, clock, modelCalls, turn, terminated,
                 peerVars, matchCall, modelName, tokenCalls, policyCall, flowCall>>

FormNext ==
  \/ NewSession(TRUE, FormFlow, defaultModel)
  \/ \E response \in FormResponses : StoreResponse(response)
  \/ GetNextState

FormSpec == Init /\ [][FormNext]_vars

(***************************************************************************)
(* Overlapping calls: processUserInput is called again on the session      *)
(* while earlier calls are suspended at the await of the model request.    *)
(* tokenCalls lists the estimates of the calls whose request succeeded.    *)
(***************************************************************************)
MaxOverlapCalls == 3

OverlapUtterances == {"yes", "hmm"}

OverlapContents == {"Okaaay, got it!!!", "We are done here."}

\* a call of processUserInput that does not wait for the suspended ones
OverlappingCall(input) ==
  /\ clock < MaxOverlapCalls
  /\ clock' = clock + 1
  /\ Begins(processUserInput(business, openai, memory, input, clock + 1),
            input, Snapshot(memory, modelCalls))
  /\ UNCHANGED <<business, openai, peerVars, matchCall, auxVars>>

\* mutant: the call adds its estimates to the counters it read when it was suspended
ReplyArrives_StaleUsage(i, content) ==
  /\ i \in 1..Len(pending)
  /\ Returns(completionTurn(business,
                            [memory EXCEPT !.tokenUsage = pending[i].pre.tokenUsage],
                            pending[i], content),
             pending[i].input, pending[i].pre)
  /\ pending' = removeAt(pending, i)
  /\ tokenCalls' = Append(tokenCalls,
                          <<pending[i].inputTokenEstimate,
                            tokenEstimate(Len(fixDuplication(content)))>>)
  /\ UNCHANGED <<business, openai, clock, modelCalls, peerVars, matchCall,
                 modelName, policyCall, probeVars>>

\* the request of suspended call i resolves with content: the call resumes on
\* the session as it is now and accounts inputTokenEstimate and outputTokenEstimate
ReplyArrives(i, content) ==
  /\ i \in 1..Len(pending)
  /\ Returns(completionTurn(business, memory, pending[i], content),
             pending[i].input, pending[i].pre)
  /\ pending' = removeAt(pending, i)
  /\ tokenCalls' = Append(tokenCalls,
                          <<pending[i].inputTokenEstimate,
                            tokenEstimate(Len(fixDuplication(content)))>>)
  /\ UNCHANGED <<business, openai, clock, modelCalls, peerVars, matchCall,
                 modelName, policyCall, probeVars>>

OverlapNext ==
  \/ \E input \in OverlapUtterances : OverlappingCall(input)
  \/ \E i \in 1..Len(pending) : \E content \in OverlapContents : ReplyArrives(i, content)
  \/ \E i \in 1..Len(pending) : ModelThrows(i)

OverlapSpec == Init /\ [][OverlapNext]_vars

(***************************************************************************)
(* utils/stateFlowUtils.ts: validateStateFlow.  The issues are kept as a   *)
(* set, the order of the returned array is left out.  The recursion of     *)
(* traverse is run one call at a time: stack holds, innermost first, the   *)
(* states whose transitions.forEach is running and the index it is at.     *)
(***************************************************************************)
Issue(severity, message) == [severity |-> severity, message |-> message]

\* stateDefinitions[id] is not undefined: a state of the flow, or a property
\* every object inherits from Object.prototype
definesProperty(stateDefinitions, id) ==
  hasState(stateDefinitions, id) \/ inheritedProperty(id) # Null

\* stateDefinitions[id].transitions is an array
hasTransitionList(stateDefinitions, id) ==
  hasState(stateDefinitions, id) /\ declaresTransitions(stateDefinitions[id])

isTerminal(state) == "isTerminal" \in DOMAIN state /\ state.isTerminal

initialStateIssues(b) ==
  IF ~Truthy(b.initialState)
  THEN {Issue("error", "No initial state defined")}
  ELSE IF ~definesProperty(b.stateDefinitions, b.initialState)
  THEN {Issue("error", "Initial state \"" \o b.initialState
                         \o "\" is not defined in state definitions")}
  ELSE {}

noTransitionIssues(defs) ==
  {Issue("warning", "State \"" \o defs[id].name \o "\" (" \o id
                      \o ") has no transitions and is not marked as terminal") :
     id \in {d \in DOMAIN defs : Len(defs[d].transitions) = 0 /\ ~isTerminal(defs[d])}}

danglingTargets(defs) ==
  {e \in UNION {{<<id, i>> : i \in 1..Len(defs[id].transitions)} : id \in DOMAIN defs} :
     ~definesProperty(defs, defs[e[1]].transitions[e[2]].targetState)}

nonExistentIssues(defs) ==
  {Issue("error", "State \"" \o defs[e[1]].name \o "\" (" \o e[1]
                    \o ") has a transition to non-existent state \""
                    \o defs[e[1]].transitions[e[2]].targetState \o "\"") :
     e \in danglingTargets(defs)}

unreachableIssue(defs, id) ==
  Issue("warning", "State \"" \o defs[id].name \o "\" (" \o id
                     \o ") is not reachable from the initial state")

unreachableIssues(defs, reachable) ==
  {unreachableIssue(defs, id) : id \in DOMAIN defs \ reachable}

\* one call of traverse up to the start of its forEach; reading .forEach of
\* the undefined transitions of an inherited property throws a TypeError
traverse(defs, call, stateId) ==
  IF stateId \in call.reachable \/ ~definesProperty(defs, stateId)
  THEN call
  ELSE IF ~hasTransitionList(defs, stateId)
  THEN [call EXCEPT !.reachable = @ \cup {stateId}, !.status = "threw"]
  ELSE [call EXCEPT !.reachable = @ \cup {stateId},
                    !.stack = <<[stateId |-> stateId, index |-> 1]>> \o @]

\* the forEach of the innermost running traverse takes its next transition,
\* or has none left and the call returns
forEachStep(defs, call) ==
  IF call.stack[1].index > Len(defs[call.stack[1].stateId].transitions)
  THEN [call EXCEPT !.stack = Tail(@)]
  ELSE traverse(defs,
                [call EXCEPT !.stack[1].index = @ + 1],
                defs[call.stack[1].stateId].transitions[call.stack[1].index].targetState)

\* validateStateFlow once findReachableStates has returned or thrown
afterTraversal(call) ==
  IF call.status = "threw" THEN [call EXCEPT !.issues = {}, !.stack = <<>>]
  ELSE IF call.stack # <<>> THEN call
  ELSE [call EXCEPT !.status = "returned",
                    !.issues = @ \cup unreachableIssues(call.business.stateDefinitions,
                                                        call.reachable)]

\* validateStateFlow up to the first call of traverse
validateStateFlow(b) ==
  afterTraversal(
    traverse(b.stateDefinitions,
             [status |-> "traversing", business |-> b, stack |-> <<>>, reachable |-> {},
              issues |-> initialStateIssues(b) \cup noTransitionIssues(b.stateDefinitions)
                           \cup nonExistentIssues(b.stateDefinitions),
              steps |-> 1],
             b.initialState))

FlowState(stateName, transitions) ==
  [name |-> stateName, question |-> "", transitions |-> transitions]

FlowTargets == {"a", "b", "c", "ghost", "constructor"}

TransitionLists ==
  {<<>>} \cup {<<Transition("any", t)>> : t \in FlowTargets}
    \cup {<<Transition("yes", "b"), Transition("no", "c")>>,
          <<Transition("yes", "a"), Transition("no", "ghost")>>}

InitialStates == {"a", "b", "ghost", "", "toString"}

\* flows of three states: cyclic ones, ones with targets that are not defined,
\* ones whose initial state is undefined or empty; state c is marked terminal
ValidatedFlows ==
  {[initialState |-> i,
    stateDefinitions |->
      [a |-> FlowState("A", ta), b |-> FlowState("B", tb),
       c |-> [name |-> "C", question |-> "", transitions |-> tc, isTerminal |-> TRUE]]] :
     i \in InitialStates, ta \in TransitionLists, tb \in TransitionLists,
     tc \in {<<>>, <<Transition("any", "a")>>}}

ValidateStateFlow(b) ==
  /\ flowCall.status = "idle"
  /\ flowCall' = validateStateFlow(b)
  /\ UNCHANGED <<business, openai, memory, pending, clock, modelCalls, turn, terminated,
                 peerVars, matchCall, modelName, tokenCalls, policyCall, storeCall>>

\* the next call of traverse, or the return of one
Traverse ==
  /\ flowCall.status = "traversing"
  /\ flowCall' = afterTraversal(
                    [forEachStep(flowCall.business.stateDefinitions, flowCall)
                       EXCEPT !.steps = @ + 1])
  /\ UNCHANGED <<business, openai, memory, pending, clock, modelCalls, turn, terminated,
                 peerVars, matchCall, modelName, tokenCalls, policyCall, storeCall>>

ValidateNext ==
  \/ \E b \in ValidatedFlows : ValidateStateFlow(b)
  \/ Traverse

ValidateSpec == Init /\ [][ValidateNext]_vars

(***************************************************************************)
(* Properties.  turn describes the last call that returned: its input, the *)
(* session before the call (pre), the session at the return (post) and the *)
(* returned value (result).                                                *)
(***************************************************************************)
TurnDone == turn.outcome # "none"

\* every transition of the definition leads to a defined state
AllTargetsExist(b) ==
  \A s \in DOMAIN b.stateDefinitions :
    \A i \in 1..Len(b.stateDefinitions[s].transitions) :
      hasState(b.stateDefinitions, b.stateDefinitions[s].transitions[i].targetState)

\* the AgentMemory object as it was in the snapshot s
MemoryAt(s) ==
  [memory EXCEPT !.currentState = s.currentState,
                 !.userResponses = s.userResponses,
                 !.transitionHistory = s.transitionHistory,
                 !.tokenUsage = s.tokenUsage,
                 !.contextualData = s.contextualData,
                 !.currentPrompt = s.currentPrompt,
                 !.usedLLM = s.usedLLM]

\* for every definition and utterance of the model, what the utterance matches:
\* the first knowledge item, the first disqualification rule and, per state,
\* the first transition (computed once, the properties look the indexes up)
IndexTable ==
  [b \in Businesses |->
     [input \in Utterances |->
        [knowledge  |-> firstKnowledgeItem(b.knowledgeBase, trim(toLowerCase(input))),
         rule       |-> firstRule(b.disqualificationRules, input),
         transition |-> [s \in DOMAIN b.stateDefinitions |->
                           firstMatch(b.stateDefinitions[s].transitions, input)]]]]

\* index of the first knowledge item the utterance matches, 0 when none
KnowledgeIndex(input) ==
  IF input \in Utterances THEN IndexTable[business][input].knowledge
  ELSE firstKnowledgeItem(business.knowledgeBase, trim(toLowerCase(input)))

\* index of the first disqualification rule the utterance matches, 0 when none
RuleIndex(input) ==
  IF input \in Utterances THEN IndexTable[business][input].rule
  ELSE firstRule(business.disqualificationRules, input)

\* the transitions of state s, none for an undefined state
TransitionsOf(s) ==
  IF hasState(business.stateDefinitions, s)
  THEN business.stateDefinitions[s].transitions ELSE <<>>

\* index of the first transition of state s the utterance matches, 0 when none
TransitionIndex(s, input) ==
  IF input \in Utterances /\ hasState(business.stateDefinitions, s)
  THEN IndexTable[business][input].transition[s]
  ELSE firstMatch(TransitionsOf(s), input)

\* the utterance matches some deterministic rule in state s
Deterministic(s, input) ==
  \/ KnowledgeIndex(input) # 0
  \/ RuleIndex(input) # 0
  \/ TransitionIndex(s, input) # 0

\* the target of the first transition of state s the utterance matches
FirstTarget(s, input) == TransitionsOf(s)[TransitionIndex(s, input)].targetState

LogsUnchanged ==
  /\ turn.post.contextualData = turn.pre.contextualData
  /\ turn.post.userResponses = turn.pre.userResponses
  /\ turn.post.transitionHistory = turn.pre.transitionHistory

\* C1: with all transition targets defined, the model is requested only for an
\* utterance that matches no knowledge item, no disqualification rule and no
\* transition of the current state; a turn some such rule resolves issues no
\* request and leaves tokenUsage unchanged.
C1_ModelOnlyWhenNoRule ==
  AllTargetsExist(business) =>
    /\ \A i \in 1..Len(pending) :
         ~Deterministic(pending[i].pre.currentState, pending[i].input)
    /\ TurnDone =>
         /\ turn.post.modelCalls > turn.pre.modelCalls
              => ~Deterministic(turn.pre.currentState, turn.input)
         /\ Deterministic(turn.pre.currentState, turn.input)
              => /\ turn.post.modelCalls = turn.pre.modelCalls
                 /\ turn.post.tokenUsage = turn.pre.tokenUsage

C1_Witness ==
  /\ AllTargetsExist(business)
  /\ turn.outcome = "transition"
  /\ turn.pre.modelCalls > 0
  /\ turn.pre.tokenUsage.totalTokens > 0

\* C2: an utterance that matches a knowledge item is answered with the item's
\* interpolated answer, nextState the unchanged current state, disqualified
\* false; the fallback flag is cleared and state, facts, logs and tokenUsage
\* are as before the turn.
C2_KnowledgeHitFrame ==
  (TurnDone /\ KnowledgeIndex(turn.input) # 0) =>
    /\ turn.result =
         Result(replaceContextVariables(
                  MemoryAt(turn.pre),
                  business.knowledgeBase[KnowledgeIndex(turn.input)].response),
                turn.pre.currentState, FALSE)
    /\ turn.post.usedLLM = FALSE
    /\ turn.post.currentState = turn.pre.currentState
    /\ LogsUnchanged
    /\ turn.post.tokenUsage = turn.pre.tokenUsage

C2_Witness ==
  /\ turn.outcome = "knowledge"
  /\ turn.pre.currentState # business.initialState
  /\ objHas(turn.pre.contextualData, "userName")

\* C3: an utterance that matches no knowledge item but a disqualification rule
\* is answered with the message of the first matching rule, nextState null,
\* disqualified true, and the current state, the response log, the facts and
\* the transition log are not changed, also when a transition matches too.
C3_DisqualifiedFrame ==
  (TurnDone /\ KnowledgeIndex(turn.input) = 0 /\ RuleIndex(turn.input) # 0) =>
    /\ turn.result =
         Result(business.disqualificationRules[RuleIndex(turn.input)].message,
                Null, TRUE)
    /\ turn.post.currentState = turn.pre.currentState
    /\ LogsUnchanged

C3_Witness ==
  /\ turn.outcome = "disqualified"
  /\ TransitionIndex(turn.pre.currentState, turn.input) # 0
  /\ RuleIndex(turn.input) = 1
  /\ matchesCondition(turn.input, business.disqualificationRules[2].condition)

\* C4: the knowledge base is consulted before the disqualification rules, and
\* the rules before the response is recorded and before any transition: an
\* utterance matching both a knowledge item and a rule gets the knowledge
\* answer with disqualified false, and a disqualifying utterance is neither
\* recorded nor allowed to take a transition.
C4_TurnOrdering ==
  TurnDone =>
    /\ (KnowledgeIndex(turn.input) # 0 /\ RuleIndex(turn.input) # 0) =>
         /\ turn.outcome = "knowledge"
         /\ turn.result.disqualified = FALSE
         /\ turn.result.response =
              replaceContextVariables(
                MemoryAt(turn.pre),
                business.knowledgeBase[KnowledgeIndex(turn.input)].response)
    /\ turn.result.disqualified =>
         /\ KnowledgeIndex(turn.input) = 0
         /\ ~objHas(turn.post.userResponses, turn.pre.currentState)
              \/ (/\ objHas(turn.pre.userResponses, turn.pre.currentState)
                  /\ objGet(turn.post.userResponses, turn.pre.currentState)
                       = objGet(turn.pre.userResponses, turn.pre.currentState))
         /\ Len(turn.post.transitionHistory) = Len(turn.pre.transitionHistory)

C4_Witness ==
  /\ turn.outcome = "knowledge"
  /\ RuleIndex(turn.input) # 0

\* C5 as stated: whenever no knowledge item and no rule matches and some
\* transition of the current state matches, the turn returns the prompt of the
\* target of the first matching transition, that target as nextState,
\* disqualified false, clears the fallback flag and ends in the target state.
C5_Original ==
  (/\ TurnDone
   /\ KnowledgeIndex(turn.input) = 0
   /\ RuleIndex(turn.input) = 0
   /\ TransitionIndex(turn.pre.currentState, turn.input) # 0) =>
    /\ turn.outcome = "transition"
    /\ turn.result.nextState = FirstTarget(turn.pre.currentState, turn.input)
    /\ turn.result.disqualified = FALSE
    /\ turn.post.usedLLM = FALSE
    /\ turn.post.currentState = FirstTarget(turn.pre.currentState, turn.input)

\* C5 amended: the same, provided the target of the first matching transition
\* is a defined state; the response is then the primary prompt of the target,
\* which is one of the values getNextQuestion may return there.
C5_TransitionToDefinedTarget ==
  (/\ TurnDone
   /\ KnowledgeIndex(turn.input) = 0
   /\ RuleIndex(turn.input) = 0
   /\ TransitionIndex(turn.pre.currentState, turn.input) # 0
   /\ hasState(business.stateDefinitions,
               FirstTarget(turn.pre.currentState, turn.input))) =>
    /\ turn.result =
         Result(business.stateDefinitions[
                  FirstTarget(turn.pre.currentState, turn.input)].question,
                FirstTarget(turn.pre.currentState, turn.input), FALSE)
    /\ turn.result.response \in getNextQuestion(MemoryAt(turn.post))
    /\ turn.post.usedLLM = FALSE
    /\ turn.post.currentState = FirstTarget(turn.pre.currentState, turn.input)

\* a transition is taken although a later transition matches too, into a state
\* that declares prompt variants, right after a turn that used the fallback
C5_Witness ==
  /\ turn.outcome = "transition"
  /\ turn.pre.usedLLM = TRUE
  /\ Len(business.stateDefinitions[turn.post.currentState].questionVariants) > 0
  /\ \E i \in 2..Len(TransitionsOf(turn.pre.currentState)) :
       matchesCondition(turn.input, TransitionsOf(turn.pre.currentState)[i].condition)

\* C6: when the initial state and every transition target are defined states,
\* the current state is a defined state in every reachable state of a session.
C6_CurrentStateDefined ==
  (/\ AllTargetsExist(business)
   /\ hasState(business.stateDefinitions, business.initialState)) =>
    hasState(business.stateDefinitions, memory.currentState)

C6_Witness ==
  /\ AllTargetsExist(business)
  /\ turn.outcome = "error"
  /\ memory.currentState = "done"
  /\ Len(memory.transitionHistory) >= 3

\* C7: when the first matching transition names an undefined target, the
\* engine does not move to it: the current state stays the defined state it
\* was, and the turn takes the escalation path.
C7_DanglingTargetNotEntered ==
  (/\ TurnDone
   /\ KnowledgeIndex(turn.input) = 0
   /\ RuleIndex(turn.input) = 0
   /\ TransitionIndex(turn.pre.currentState, turn.input) # 0
   /\ ~hasState(business.stateDefinitions,
                FirstTarget(turn.pre.currentState, turn.input))) =>
    /\ turn.outcome \in {"llm", "error", "noClient"}
    /\ turn.post.currentState = turn.pre.currentState
    /\ hasState(business.stateDefinitions, turn.post.currentState)

ApologyResult ==
  Result("I'm having trouble understanding. Could you please rephrase that?",
         Null, FALSE)

\* C8: a turn on which no transition matched and whose model request failed
\* returns the fixed apology with nextState null and disqualified false, and
\* the current state and tokenUsage are what they were before the turn.
C8_FailedCallKeepsState ==
  (/\ turn.outcome = "error"
   /\ TransitionIndex(turn.pre.currentState, turn.input) = 0) =>
    /\ turn.result = ApologyResult
    /\ turn.post.currentState = turn.pre.currentState
    /\ turn.post.tokenUsage = turn.pre.tokenUsage

C8_Witness ==
  /\ turn.outcome = "error"
  /\ TransitionIndex(turn.pre.currentState, turn.input) = 0
  /\ turn.pre.tokenUsage.totalTokens > 0
  /\ turn.pre.currentState # business.initialState

\* C9 as stated: after a turn that ended in a model failure, the contextual
\* facts, the response log and the transition log equal their pre-turn values.
C9_Original == turn.outcome = "error" => LogsUnchanged

\* the session after storeResponse and getNextState ran on the pre-turn session
AfterRecording ==
  getNextState(
    storeResponse(MemoryAt(turn.pre), turn.pre.currentState, turn.input,
                  objGet(turn.post.userResponses, turn.pre.currentState).timestamp),
    turn.input).m

\* C9 amended: a turn that ended in a model failure leaves tokenUsage as it was,
\* and the response log, the facts and the transition log are the pre-turn ones
\* after recordResponse for the utterance (and after the transition attempt,
\* which changes the session only when it takes a transition to an undefined
\* state): the utterance is recorded for the current state.
C9_FailedCallKeepsRecording ==
  turn.outcome = "error" =>
    /\ objHas(turn.post.userResponses, turn.pre.currentState)
    /\ objGet(turn.post.userResponses, turn.pre.currentState).value = turn.input
    /\ turn.post.userResponses = AfterRecording.userResponses
    /\ turn.post.contextualData = AfterRecording.contextualData
    /\ turn.post.transitionHistory = AfterRecording.transitionHistory
    /\ turn.post.currentState = AfterRecording.currentState
    /\ turn.post.tokenUsage = turn.pre.tokenUsage

\* a failed turn in a state with an expected input: a fact and a form-data
\* entry were written before the request
C9_Witness ==
  /\ turn.outcome = "error"
  /\ turn.post.contextualData # turn.pre.contextualData
  /\ Len(turn.post.transitionHistory) = Len(turn.pre.transitionHistory) + 1

\* C10: after every turn wasLLMUsed() is true exactly when the turn got its
\* response from a successful model call.
C10_FlagIffModelAnswered ==
  TurnDone => (wasLLMUsed(MemoryAt(turn.post)) <=> turn.outcome = "llm")

\* C11: a call of processUserInput issues at most one request to the model: a
\* suspended call has issued exactly one, a finished turn zero or one, and a
\* turn whose request failed exactly one (the request is not repeated).
C11_OneModelCallPerTurn ==
  /\ \A i \in 1..Len(pending) : modelCalls = pending[i].pre.modelCalls + 1
  /\ TurnDone =>
       /\ turn.post.modelCalls - turn.pre.modelCalls \in {0, 1}
       /\ turn.outcome = "error" => turn.post.modelCalls = turn.pre.modelCalls + 1

C11_Witness ==
  /\ turn.outcome = "error"
  /\ turn.post.modelCalls = 2
  /\ turn.pre.modelCalls = 1

C13_DisqualifiedIsTerminal ==
  [][terminated =>
       /\ memory'.currentState = memory.currentState
       /\ memory'.transitionHistory = memory.transitionHistory]_vars

\* the last turn called getNextState: it was neither answered from the
\* knowledge base nor disqualified
CalledNextState == turn.outcome \in {"transition", "llm", "error", "noClient"}

\* the session getNextState was called on: the pre-turn one after storeResponse
Recorded ==
  storeResponse(MemoryAt(turn.pre), turn.pre.currentState, turn.input,
                objGet(turn.post.userResponses, turn.pre.currentState).timestamp)

\* the transitions of the pre-turn state that the utterance of the turn matches
MatchingTransitions ==
  {i \in 1..Len(TransitionsOf(turn.pre.currentState)) :
     matchesCondition(turn.input, TransitionsOf(turn.pre.currentState)[i].condition)}

\* getNextState returned target after logging exactly the entry for transition
\* and moving to target
TookTransition(before, r, transition) ==
  /\ r.ret = transition.targetState
  /\ r.m.transitionHistory
       = Append(before.transitionHistory,
                [from   |-> before.currentState,
                 to     |-> transition.targetState,
                 reason |-> transition.condition])
  /\ r.m.currentState = transition.targetState

\* C15: in every turn that calls getNextState with an utterance that matches a
\* transition of the current state, getNextState returns the target of the
\* matching transition of lowest index, appends exactly the log entry {from:
\* the previous current state, to: that target, reason: its condition} and
\* makes that target the current state, which is where the turn ends.
C15_FirstMatchTaken ==
  CalledNextState =>
    \A i \in MatchingTransitions :
      (\A j \in MatchingTransitions : i <= j) =>
        /\ TookTransition(Recorded, getNextState(Recorded, turn.input),
                          TransitionsOf(turn.pre.currentState)[i])
        /\ turn.post.currentState
             = TransitionsOf(turn.pre.currentState)[i].targetState
        /\ Len(turn.post.transitionHistory) = Len(Recorded.transitionHistory) + 1

\* the last turn took a transition from a state of which two transitions with
\* different targets matched the utterance, and it went to the first one's
C15_Witness ==
  /\ turn.outcome = "transition"
  /\ clock >= 2
  /\ \E i, j \in 1..Len(TransitionsOf(turn.pre.currentState)) :
       /\ i < j
       /\ matchesCondition(turn.input, TransitionsOf(turn.pre.currentState)[i].condition)
       /\ matchesCondition(turn.input, TransitionsOf(turn.pre.currentState)[j].condition)
       /\ TransitionsOf(turn.pre.currentState)[i].targetState
            # TransitionsOf(turn.pre.currentState)[j].targetState
       /\ turn.post.currentState = TransitionsOf(turn.pre.currentState)[i].targetState
       /\ turn.result.nextState = TransitionsOf(turn.pre.currentState)[i].targetState

\* getNextState returned null and left the state and the log alone
StayedPut(before, r) ==
  /\ r.ret = Null
  /\ r.m.currentState = before.currentState
  /\ r.m.transitionHistory = before.transitionHistory

\* C16: in every turn that calls getNextState in a state that has no
\* transitions (or is no defined state) or with an utterance none of them
\* matches, getNextState returns null and leaves the current state and the
\* transition log as they were, and so they are when the turn ends.
C16_NoMatchNoMove ==
  (CalledNextState /\ MatchingTransitions = {}) =>
    /\ StayedPut(Recorded, getNextState(Recorded, turn.input))
    /\ turn.post.currentState = turn.pre.currentState
    /\ turn.post.transitionHistory = Recorded.transitionHistory

\* a turn in the state without transitions went on to the model, and the
\* session stands there with a log that is not empty
C16_Witness ==
  /\ turn.outcome \in {"llm", "error", "noClient"}
  /\ turn.pre.currentState = "done"
  /\ TransitionsOf(memory.currentState) = <<>>
  /\ memory.transitionHistory # <<>>
  /\ turn.post.currentState = turn.pre.currentState

(***************************************************************************)
(* Properties of the matcher, stated on the call matchCall records.        *)
(***************************************************************************)
\* the utterance as the matcher compares it: lower-cased, then trimmed
Normalized(u) == trim(toLowerCase(u))

\* a condition text that is no prefixed form and has none of * + ? |
IsPlain(c) ==
  /\ \A prefix \in {"contains:", "exact:", "starts:", "ends:"} : ~startsWith(c, prefix)
  /\ \A q \in {"*", "+", "?", "|"} : ~includes(c, q)

\* the alternatives of a comma-separated condition, trimmed and lower-cased
Alternatives(c) ==
  {toLowerCase(trim(splitOn(c, ",")[i])) : i \in 1..Len(splitOn(c, ","))}

\* utterance u has two identical consecutive words, and that word occurs in c
HasRepeatIn(u, c) ==
  \E k \in 2..Len(splitWhitespace(trim(u))) :
    /\ splitWhitespace(trim(u))[k] = splitWhitespace(trim(u))[k - 1]
    /\ includes(c, splitWhitespace(trim(u))[k])

\* C17 as stated: a comma-separated condition matches when one of its
\* alternatives does, so that "yes please" matches "yes,no" and "nope" does not.
C17_Original ==
  (matchCall.made /\ matchCall.condition = "yes,no") =>
    /\ matchCall.response = "yes please" => matchCall.result
    /\ matchCall.response = "nope" => ~matchCall.result

\* C17: a comma-separated condition of plain alternatives matches exactly when
\* some alternative, trimmed and lower-cased, is a substring of the lower-cased,
\* trimmed utterance or contains a word the utterance repeats; "yes please"
\* matches "yes,no", and so does "nope", of which "no" is a substring.
C17_AlternativesBySubstring ==
  (/\ matchCall.made
   /\ includes(matchCall.condition, ",")
   /\ \A alt \in Alternatives(matchCall.condition) : IsPlain(alt)) =>
    /\ matchCall.result <=>
         \E alt \in Alternatives(matchCall.condition) :
           \/ includes(Normalized(matchCall.response), alt)
           \/ HasRepeatIn(Normalized(matchCall.response), alt)
    /\ (/\ matchCall.condition = "yes,no"
        /\ matchCall.response \in {"yes please", "nope"}) => matchCall.result

C17_Witness ==
  matchCall = [made |-> TRUE, response |-> "nope", condition |-> "yes,no",
               result |-> TRUE]

\* the text after the prefix of a prefixed condition
TextAfter(c, prefix) == trim(substring(c, Len(prefix)))

\* C18 as stated: under exact: an utterance that differs from the text only in
\* letter case does not match.
C18_Original ==
  (/\ matchCall.made
   /\ startsWith(matchCall.condition, "exact:")
   /\ matchCall.response # TextAfter(matchCall.condition, "exact:")
   /\ toLowerCase(matchCall.response)
        = toLowerCase(TextAfter(matchCall.condition, "exact:"))) =>
    ~matchCall.result

\* C18: matching ignores letter case under every form, exact: included: an
\* exact: condition matches exactly when the lower-cased, trimmed utterance
\* equals the lower-cased, trimmed text, a contains: condition when it contains
\* the lower-cased text, and the regex form a*c when the lower-cased utterance
\* has an a with a c after it.
C18_ExactIgnoresCase ==
  matchCall.made =>
    /\ startsWith(matchCall.condition, "exact:") =>
         (matchCall.result <=>
            Normalized(matchCall.response)
              = toLowerCase(TextAfter(matchCall.condition, "exact:")))
    /\ startsWith(matchCall.condition, "contains:") =>
         (matchCall.result <=>
            includes(Normalized(matchCall.response),
                     toLowerCase(TextAfter(matchCall.condition, "contains:"))))
    /\ matchCall.condition = "a*c" =>
         (matchCall.result <=>
            \E i \in 1..Len(matchCall.response) :
              /\ LowerChar(CharAt(matchCall.response, i)) = "a"
              /\ \E j \in (i + 1)..Len(matchCall.response) :
                   LowerChar(CharAt(matchCall.response, j)) = "c")

C18_Witness ==
  matchCall = [made |-> TRUE, response |-> "ABC", condition |-> "exact:abc",
               result |-> TRUE]

\* C19: a plain condition (no comma, no prefix, none of * + ? |) matches every
\* utterance that has two identical consecutive words of which the repeated
\* word is a substring of the condition, also when the condition is no
\* substring of the utterance, as for "ok ok ok" against "okay".
C19_RepetitionRule ==
  (/\ matchCall.made
   /\ ~includes(matchCall.condition, ",")
   /\ IsPlain(toLowerCase(matchCall.condition))
   /\ HasRepeatIn(matchCall.response, matchCall.condition)) =>
    matchCall.result

C19_Witness ==
  /\ matchCall.made
  /\ matchCall.condition = "okay"
  /\ HasRepeatIn(matchCall.response, matchCall.condition)
  /\ ~includes(Normalized(matchCall.response), matchCall.condition)
  /\ Len(splitWhitespace(matchCall.response)) = 2
  /\ matchCall.result

\* the transitions of state s start with one whose condition is "any" in some
\* letter-casing
StartsWithAny(s) ==
  /\ TransitionsOf(s) # <<>>
  /\ toLowerCase(TransitionsOf(s)[1].condition) = "any"

\* C20: the condition "any", in every letter-casing, matches every utterance,
\* and a session in a state whose first transition has that condition takes
\* that transition whatever the utterance.
C20_AnyAlwaysMatches ==
  matchCall.made =>
    /\ toLowerCase(matchCall.condition) = "any" => matchCall.result
    /\ \A s \in {id \in DOMAIN business.stateDefinitions : StartsWithAny(id)} :
         getNextState([memory EXCEPT !.currentState = s], matchCall.response).ret
           = TransitionsOf(s)[1].targetState

C20_Witness ==
  /\ matchCall = [made |-> TRUE, response |-> "", condition |-> "ANY", result |-> TRUE]
  /\ \E s \in DOMAIN business.stateDefinitions :
       StartsWithAny(s) /\ TransitionsOf(s)[1].condition # "any"

\* the mutable fields of an AgentMemory object
Fields(m) ==
  [currentState      |-> m.currentState,
   contextualData    |-> m.contextualData,
   userResponses     |-> m.userResponses,
   transitionHistory |-> m.transitionHistory,
   tokenUsage        |-> m.tokenUsage,
   usedLLM           |-> m.usedLLM]

\* C14: however the calls on service A and on service B are interleaved, the
\* current state, contextual facts, response log, transition log, token usage
\* and fallback flag that B sees are those of B run by itself, and the
\* definition both were built from is the one they were given.
C14_SessionsIndependent ==
  /\ Fields(heap[memoryOf("B")]) = Fields(alone.memory)
  /\ peerPending["B"] = alone.pending
  /\ \A service \in Services :
       /\ heap[memoryOf(service)].stateDefinitions = business.stateDefinitions
       /\ heap[memoryOf(service)].knowledgeBase = business.knowledgeBase
       /\ heap[memoryOf(service)].disqualificationRules = business.disqualificationRules

\* both services have moved, to different states, B has spent tokens, and a
\* call of A is suspended
C14_Witness ==
  /\ heap[memoryOf("A")].currentState # heap[memoryOf("B")].currentState
  /\ heap[memoryOf("A")].transitionHistory # <<>>
  /\ heap[memoryOf("B")].tokenUsage.totalTokens > 0
  /\ heap[memoryOf("B")].currentState # business.initialState
  /\ peerPending["A"] # <<>>

(***************************************************************************)
(* The fallback policy.  policyCall describes the last call of             *)
(* shouldUseLLM: the state and the contextual data it was made in, the     *)
(* utterance and the returned value.                                       *)
(***************************************************************************)
\* rule 1 applies: the utterance ends with '?' and has more than 10 characters
IsLongQuestion(u) == Len(u) > 10 /\ CharAt(u, Len(u)) = "?"

\* s without the first occurrence of t
RECURSIVE WithoutFirst(_, _)
WithoutFirst(s, t) ==
  IF s = "" THEN ""
  ELSE IF startsWith(s, t) THEN substring(s, Len(t))
  ELSE CharAt(s, 1) \o WithoutFirst(substring(s, 1), t)

\* the key lower-cased with its first "user" removed
DerivedName(key) == WithoutFirst(toLowerCase(key), "user")

IdentityFields == {"businessName", "businessType", "useCase", "agentRole", "tonePreference"}

\* some fact other than the business identity has a non-empty value and its
\* derived name occurs in the lower-cased utterance
KnownFactNamed(facts, u) ==
  \E i \in 1..Len(facts) :
    /\ facts[i].key \notin IdentityFields
    /\ facts[i].value \notin {"", Null}
    /\ includes(toLowerCase(u), DerivedName(facts[i].key))

\* the input hint of state s names an open-ended category
HintOpenEnded(s) ==
  /\ hasState(business.stateDefinitions, s)
  /\ \E word \in {"reason", "objection", "explanation", "description", "feedback"} :
       includes(toLowerCase(business.stateDefinitions[s].expectedInputs), word)

\* a transition of state s matches the utterance
SomeTransitionMatches(s, u) ==
  /\ hasState(business.stateDefinitions, s)
  /\ declaresTransitions(business.stateDefinitions[s])
  /\ \E i \in 1..Len(business.stateDefinitions[s].transitions) :
       matchesCondition(u, business.stateDefinitions[s].transitions[i].condition)

\* C21 as stated: in a state whose input hint is open-ended the policy
\* escalates whatever the utterance and the context are
C21_Original ==
  (policyCall.made /\ HintOpenEnded(policyCall.currentState)) => policyCall.result

\* C21: in a state whose input hint is open-ended the policy escalates, whether
\* or not a transition matches, unless the utterance is a question of rule 1
\* that names a stored fact
C21_OpenEndedEscalates ==
  (/\ policyCall.made
   /\ HintOpenEnded(policyCall.currentState)
   /\ ~(/\ IsLongQuestion(policyCall.response)
        /\ KnownFactNamed(policyCall.contextualData, policyCall.response)))
    => policyCall.result

\* the policy was asked in the objection state about an utterance that a
\* transition of the state matches, and escalated
C21_Witness ==
  /\ policyCall.made
  /\ HintOpenEnded(policyCall.currentState)
  /\ SomeTransitionMatches(policyCall.currentState, policyCall.response)
  /\ ~IsLongQuestion(policyCall.response)
  /\ policyCall.result

(***************************************************************************)
(* Token accounting.  tokenCalls lists the calls of updateTokenUsage made  *)
(* on the session.  Costs are exact, in millionths of a dollar.            *)
(***************************************************************************)
\* the sum of the k-th components of the calls
RECURSIVE SumOf(_, _)
SumOf(calls, k) == IF calls = <<>> THEN 0 ELSE calls[1][k] + SumOf(Tail(calls), k)

\* the cost of the totals at a pair of rates
CostAt(inputRate, outputRate) ==
  SumOf(tokenCalls, 1) * inputRate + SumOf(tokenCalls, 2) * outputRate

RatePairs == {<<gpt35Input, gpt35Output>>, <<gpt4Input, gpt4Output>>}

IsGpt4(name) == Len(name) >= 5 /\ SubSeq(name, 1, 5) = "gpt-4"

TokensAddUp ==
  /\ memory.tokenUsage.inputTokens = SumOf(tokenCalls, 1)
  /\ memory.tokenUsage.outputTokens = SumOf(tokenCalls, 2)
  /\ memory.tokenUsage.totalTokens
       = memory.tokenUsage.inputTokens + memory.tokenUsage.outputTokens
  /\ \E rates \in RatePairs : memory.tokenUsage.estimatedCost = CostAt(rates[1], rates[2])
  /\ ~IsGpt4(modelName) => memory.tokenUsage.estimatedCost = CostAt(gpt35Input, gpt35Output)

TokensGrow ==
  /\ memory'.tokenUsage.inputTokens >= memory.tokenUsage.inputTokens
  /\ memory'.tokenUsage.outputTokens >= memory.tokenUsage.outputTokens
  /\ memory'.tokenUsage.totalTokens >= memory.tokenUsage.totalTokens
  /\ memory'.tokenUsage.estimatedCost >= memory.tokenUsage.estimatedCost

\* C22: after any sequence of updateTokenUsage calls the input and output
\* counters are the sums of the estimates, the total is their sum, the cost is
\* the rate function of the cumulative totals (at the non-GPT-4 rates in a
\* non-GPT-4 session), and no counter ever decreases
C22_TokenTotals == [](TokensAddUp) /\ [][TokensGrow]_vars

\* the two calls (40, 10) and (30, 5) were made on a non-GPT-4 session: the
\* total is 85 and the cost that of 70 input and 15 output tokens
C22_Witness ==
  /\ tokenCalls = <<<<40, 10>>, <<30, 5>>>>
  /\ ~IsGpt4(modelName)
  /\ memory.tokenUsage.totalTokens = 85
  /\ memory.tokenUsage.estimatedCost = 70 * gpt35Input + 15 * gpt35Output

\* C23: the cost is computed with the rates of the model family of the session
C23_CostAtSessionRates ==
  memory.tokenUsage.estimatedCost
    = IF IsGpt4(modelName) THEN CostAt(gpt4Input, gpt4Output)
      ELSE CostAt(gpt35Input, gpt35Output)

(***************************************************************************)
(* The knowledge base.  A turn with outcome "knowledge" returned the       *)
(* answer of the first matching item, made in the session turn.pre.        *)
(***************************************************************************)
\* the length of the name of the placeholder {name} the text starts with, 0
\* when it does not start with one
PlaceholderAt(text) ==
  IF Len(text) >= 3 /\ CharAt(text, 1) = "{"
  THEN firstOf({n \in 1..(Len(text) - 2) :
                  /\ CharAt(text, n + 2) = "}"
                  /\ \A j \in 2..(n + 1) : CharAt(text, j) \in WordChars})
  ELSE 0

FactKeys(facts) == {facts[i].key : i \in 1..Len(facts)}

FactValue(facts, key) == facts[CHOOSE i \in 1..Len(facts) : facts[i].key = key].value

\* the text with the placeholders of known facts replaced by the facts' values
RECURSIVE Interpolated(_, _)
Interpolated(text, facts) ==
  IF text = "" THEN ""
  ELSE LET n == PlaceholderAt(text)
       IN IF n = 0 THEN CharAt(text, 1) \o Interpolated(substring(text, 1), facts)
          ELSE (IF SubSeq(text, 2, n + 1) \in FactKeys(facts)
                THEN FactValue(facts, SubSeq(text, 2, n + 1))
                ELSE SubSeq(text, 1, n + 2))
                 \o Interpolated(substring(text, n + 2), facts)

\* the answer of the knowledge item the utterance of the turn matched
MatchedAnswer ==
  business.knowledgeBase[
    firstKnowledgeItem(business.knowledgeBase, trim(toLowerCase(turn.input)))].response

\* C24: a knowledge-base turn returns the matched answer with the placeholders
\* of known facts replaced by their values and every other placeholder verbatim
C24_AnswerInterpolated ==
  turn.outcome = "knowledge"
    => turn.result.response = Interpolated(MatchedAnswer, turn.pre.contextualData)

(***************************************************************************)
(* The orchestrator against the fallback policy.                           *)
(***************************************************************************)
\* the last turn went to the model
ModelAsked == turn.outcome \in {"llm", "error"}

\* C25: on a turn that passes the knowledge base and the disqualification
\* rules the model is called exactly when shouldUseLLM says so, evaluated on
\* the session as the turn found it or as it is after the utterance is recorded
C25_OrchestratorFollowsPolicy ==
  (CalledNextState /\ openai) =>
    \/ (ModelAsked <=> shouldUseLLM(MemoryAt(turn.pre), turn.input))
    \/ (ModelAsked <=> shouldUseLLM(Recorded, turn.input))

(***************************************************************************)
(* Conditions that are no valid regular expressions.                       *)
(***************************************************************************)
\* the single condition c takes the regex path of the matcher
TakesRegexPath(c) ==
  /\ \A prefix \in {"contains:", "exact:", "starts:", "ends:"} : ~startsWith(c, prefix)
  /\ \E q \in {"*", "+", "?", "|"} : includes(c, q)

\* the single condition c takes the regex path and its pattern does not compile
Malformed(c) ==
  /\ TakesRegexPath(c)
  /\ regexThrows(replaceChar(replaceChar(c, "*", ".*"), "+", ".+"))

\* C26: a condition all of whose alternatives take the regex path and are
\* malformed is answered with false: the error is caught, the call returns
C26_MalformedNeverMatches ==
  (/\ matchCall.made
   /\ toLowerCase(matchCall.condition) # "any"
   /\ \A alt \in Alternatives(matchCall.condition) : Malformed(alt))
    => matchCall.result = FALSE

\* a condition with only malformed alternatives was tried and did not match
C26_Witness ==
  /\ matchCall.made
  /\ \A alt \in Alternatives(matchCall.condition) : Malformed(alt)
  /\ Cardinality(Alternatives(matchCall.condition)) = 2
  /\ matchCall.result = FALSE

\* C27 as stated: a malformed condition matches exactly the utterances that
\* contain its text, letter case ignored
C27_Original ==
  (/\ matchCall.made
   /\ ~includes(matchCall.condition, ",")
   /\ Malformed(toLowerCase(matchCall.condition)))
    => (matchCall.result
          <=> includes(Normalized(matchCall.response), toLowerCase(matchCall.condition)))

\* C27: a malformed condition does not degrade to substring matching: it does
\* not match an utterance that contains its text
C27_MalformedIsNoSubstring ==
  (/\ matchCall.made
   /\ ~includes(matchCall.condition, ",")
   /\ Malformed(toLowerCase(matchCall.condition))
   /\ includes(Normalized(matchCall.response), toLowerCase(matchCall.condition)))
    => ~matchCall.result

\* a malformed condition was tried on an utterance that contains its text
C27_Witness ==
  /\ matchCall.made
  /\ ~includes(matchCall.condition, ",")
  /\ Malformed(toLowerCase(matchCall.condition))
  /\ includes(Normalized(matchCall.response), toLowerCase(matchCall.condition))
  /\ ~matchCall.result

(***************************************************************************)
(* Knowledge patterns that are no valid regular expressions.               *)
(***************************************************************************)
\* the pattern has a regex metacharacter and does not compile
MalformedPattern(pattern) ==
  /\ \E c \in {"|", "+", "*", "?", "(", ")", "[", "]"} : includes(pattern, c)
  /\ regexThrows(pattern)

\* item k matches the utterance: by substring of the raw pattern when the
\* pattern is malformed, as the resolver decides otherwise
ItemMatches(k, u) ==
  IF MalformedPattern(business.knowledgeBase[k].pattern)
  THEN includes(Normalized(u), toLowerCase(business.knowledgeBase[k].pattern))
  ELSE knowledgeItemMatches(business.knowledgeBase[k], Normalized(u))

\* the first item that matches the utterance, 0 when none does
FirstItem(u) == firstOf({k \in 1..Len(business.knowledgeBase) : ItemMatches(k, u)})

HasMalformedPattern ==
  \E k \in 1..Len(business.knowledgeBase) :
    MalformedPattern(business.knowledgeBase[k].pattern)

\* C28: with a malformed pattern in the knowledge base every turn still
\* returns; the turn is answered from the knowledge base iff some item matches,
\* a malformed one by substring of its raw text, and the answer is that of the
\* first such item, so the items after a malformed one are still tried
C28_MalformedPatternBySubstring ==
  (TurnDone /\ HasMalformedPattern) =>
    /\ turn.outcome = "knowledge" <=> FirstItem(turn.input) # 0
    /\ turn.outcome = "knowledge" =>
         turn.result.response
           = replaceContextVariables(MemoryAt(turn.pre),
                                     business.knowledgeBase[FirstItem(turn.input)].response)

\* a turn was answered by the item after the malformed one, which the
\* utterance does not contain
C28_Witness ==
  /\ turn.outcome = "knowledge"
  /\ MalformedPattern(business.knowledgeBase[1].pattern)
  /\ ~includes(Normalized(turn.input), toLowerCase(business.knowledgeBase[1].pattern))
  /\ turn.result.response
       = replaceContextVariables(MemoryAt(turn.pre), business.knowledgeBase[2].response)

(***************************************************************************)
(* The rules of the fallback policy.                                       *)
(***************************************************************************)
\* C29: for an utterance that ends with '?' and has more than 10 characters
\* the policy returns false iff the utterance names a stored fact, whatever
\* the hints and the transitions of the current state are
C29_QuestionRuleFirst ==
  (policyCall.made /\ IsLongQuestion(policyCall.response)) =>
    (policyCall.result = FALSE
       <=> KnownFactNamed(policyCall.contextualData, policyCall.response))

\* the policy was asked, in the state with the open-ended hint, about a
\* question that names the stored company, and did not escalate
C29_Witness ==
  /\ policyCall.made
  /\ IsLongQuestion(policyCall.response)
  /\ HintOpenEnded(policyCall.currentState)
  /\ KnownFactNamed(policyCall.contextualData, policyCall.response)
  /\ policyCall.result = FALSE

\* the hints of state s ask for "any" input
HintAny(s) ==
  /\ hasState(business.stateDefinitions, s)
  /\ \/ toLowerCase(business.stateDefinitions[s].expectedInputs) = "any"
     \/ includes(toLowerCase(business.stateDefinitions[s].expectedInputs), "any response")
     \/ includes(toLowerCase(business.stateDefinitions[s].expectedKeywords), "any")

\* C30: for an utterance that is no question of rule 1, in a state whose hints
\* are neither open-ended nor "any", the policy returns false iff a transition
\* of the state matches the utterance; so it returns true in a state without
\* transitions, be the list absent or empty
C30_TransitionsDecide ==
  (/\ policyCall.made
   /\ ~IsLongQuestion(policyCall.response)
   /\ hasState(business.stateDefinitions, policyCall.currentState)
   /\ ~HintOpenEnded(policyCall.currentState)
   /\ ~HintAny(policyCall.currentState))
    => (policyCall.result = FALSE
          <=> SomeTransitionMatches(policyCall.currentState, policyCall.response))

\* the policy was asked about an utterance that only the second transition of
\* the state matches, and did not escalate
C30_Witness ==
  /\ policyCall.made
  /\ ~IsLongQuestion(policyCall.response)
  /\ ~HintOpenEnded(policyCall.currentState)
  /\ ~matchesCondition(policyCall.response,
                       business.stateDefinitions[policyCall.currentState].transitions[1].condition)
  /\ SomeTransitionMatches(policyCall.currentState, policyCall.response)
  /\ policyCall.result = FALSE

(***************************************************************************)
(* Knowledge patterns without regex characters.                            *)
(***************************************************************************)
\* the pattern has none of | + * ? ( ) [ ]
PlainPattern(pattern) ==
  \A c \in {"|", "+", "*", "?", "(", ")", "[", "]"} : ~includes(pattern, c)

\* the whitespace-delimited terms of the pattern, lower-cased, that have more
\* than 3 characters
LongTerms(pattern) ==
  {term \in {splitWhitespace(toLowerCase(pattern))[i] :
               i \in 1..Len(splitWhitespace(toLowerCase(pattern)))} : Len(term) > 3}

\* item k matches the utterance: by one of its long terms when the pattern is
\* plain, as the resolver decides otherwise
ItemMatchesByTerm(k, u) ==
  IF PlainPattern(business.knowledgeBase[k].pattern)
  THEN \E term \in LongTerms(business.knowledgeBase[k].pattern) :
         includes(toLowerCase(u), term)
  ELSE knowledgeItemMatches(business.knowledgeBase[k], Normalized(u))

FirstItemByTerm(u) ==
  firstOf({k \in 1..Len(business.knowledgeBase) : ItemMatchesByTerm(k, u)})

\* C31: a knowledge item with a plain pattern matches an utterance iff a term
\* of the pattern (lower-cased) longer than 3 characters occurs in the
\* lower-cased utterance: a turn is answered from the knowledge base iff some
\* item matches in this sense, with the answer of the first one
C31_PlainPatternByLongTerm ==
  TurnDone =>
    /\ turn.outcome = "knowledge" <=> FirstItemByTerm(turn.input) # 0
    /\ turn.outcome = "knowledge" =>
         turn.result.response
           = replaceContextVariables(
               MemoryAt(turn.pre),
               business.knowledgeBase[FirstItemByTerm(turn.input)].response)

\* a turn whose utterance contains a term of 3 characters of a plain pattern,
\* and no longer one, was not answered from the knowledge base
C31_Witness ==
  /\ TurnDone
  /\ turn.outcome # "knowledge"
  /\ \E k \in 1..Len(business.knowledgeBase) :
       /\ PlainPattern(business.knowledgeBase[k].pattern)
       /\ LongTerms(business.knowledgeBase[k].pattern) = {}
       /\ includes(toLowerCase(turn.input), "the")
       /\ includes(toLowerCase(business.knowledgeBase[k].pattern), "the")

(***************************************************************************)
(* Recording a response.  While storeCall.pending holds, memory is the     *)
(* session as storeResponse left it and storeCall.pre the session before.  *)
(***************************************************************************)
\* the input hint of the state the call was made in, "" when it has none
StoreHint ==
  IF hasState(business.stateDefinitions, storeCall.pre.currentState)
  THEN business.stateDefinitions[storeCall.pre.currentState].expectedInputs
  ELSE ""

\* the categories in the order they are tried
FactCategories ==
  <<[words |-> {"name"}, key |-> "userName"],
    [words |-> {"company", "business"}, key |-> "userCompany"],
    [words |-> {"email"}, key |-> "userEmail"],
    [words |-> {"phone"}, key |-> "userPhone"],
    [words |-> {"preference", "interest"}, key |-> "userPreference"],
    [words |-> {"order", "product"}, key |-> "userOrder"],
    [words |-> {"address"}, key |-> "userAddress"],
    [words |-> {"feedback"}, key |-> "userFeedback"]>>

\* the categories the lower-cased hint contains
CategoriesIn(hint) ==
  {i \in 1..Len(FactCategories) :
     \E word \in FactCategories[i].words : includes(toLowerCase(hint), word)}

\* the fact key of a non-empty hint: that of the first category it contains,
\* else user<Hint> with the lower-cased hint capitalised
FactKeyFor(hint) ==
  IF CategoriesIn(hint) # {} THEN FactCategories[firstOf(CategoriesIn(hint))].key
  ELSE "user" \o UpperChar(CharAt(toLowerCase(hint), 1)) \o substring(toLowerCase(hint), 1)

\* the facts agree on every key but the given one
SameFactsBut(before, after, key) ==
  \A k \in (FactKeys(before) \cup FactKeys(after)) \ {key} :
    /\ k \in FactKeys(before)
    /\ k \in FactKeys(after)
    /\ FactValue(before, k) = FactValue(after, k)

\* C32: storeResponse in a state with a non-empty hint writes the raw
\* utterance to the one fact key the hint selects, whatever value the key had,
\* and leaves every other fact as it was
C32_OneFactWritten ==
  (storeCall.pending /\ StoreHint # "") =>
    /\ FactKeyFor(StoreHint) \in FactKeys(memory.contextualData)
    /\ FactValue(memory.contextualData, FactKeyFor(StoreHint)) = storeCall.response
    /\ SameFactsBut(storeCall.pre.contextualData, memory.contextualData,
                    FactKeyFor(StoreHint))
    /\ Cardinality(FactKeys(memory.contextualData)) = Len(memory.contextualData)

\* the call overwrote the company a state with another hint had stored, with
\* a different value
C32_Witness ==
  /\ storeCall.pending
  /\ StoreHint = "Company phone"
  /\ "userCompany" \in FactKeys(storeCall.pre.contextualData)
  /\ FactValue(storeCall.pre.contextualData, "userCompany") # storeCall.response
  /\ FactValue(memory.contextualData, "userCompany") = storeCall.response

\* C33: storeResponse leaves the current state alone; with a non-empty hint it
\* appends one log entry from the current state to itself, marked as a form
\* data update, so the transition count grows by one; without a hint the log
\* stays as it is
C33_FormUpdateLogged ==
  storeCall.pending =>
    /\ memory.currentState = storeCall.pre.currentState
    /\ StoreHint # "" =>
         /\ getTransitionCount(memory) = Len(storeCall.pre.transitionHistory) + 1
         /\ SubSeq(memory.transitionHistory, 1, Len(storeCall.pre.transitionHistory))
              = storeCall.pre.transitionHistory
         /\ memory.transitionHistory[Len(memory.transitionHistory)].from
              = memory.currentState
         /\ memory.transitionHistory[Len(memory.transitionHistory)].to
              = memory.currentState
         /\ startsWith(memory.transitionHistory[Len(memory.transitionHistory)].reason,
                       "Form data update")
    /\ StoreHint = "" => memory.transitionHistory = storeCall.pre.transitionHistory

\* a response was recorded in a state with a hint: the count grew, the state
\* did not change
C33_Witness ==
  /\ storeCall.pending
  /\ StoreHint # ""
  /\ storeCall.pre.transitionHistory # <<>>
  /\ getTransitionCount(memory) = Len(storeCall.pre.transitionHistory) + 1
  /\ memory.currentState = storeCall.pre.currentState

\* the state ids with a recorded response, and the time of their last recording
RecordedIds == {memory.userResponses[i].key : i \in 1..Len(memory.userResponses)}

LastRecorded(id) ==
  memory.userResponses[CHOOSE i \in 1..Len(memory.userResponses) :
                         memory.userResponses[i].key = id].value.timestamp

\* the (at most 7) state ids whose last recording is the most recent
MostRecentIds ==
  {id \in RecordedIds :
     Cardinality({other \in RecordedIds : LastRecorded(other) > LastRecorded(id)}) < 7}

RelevantIds ==
  {getRelevantResponses(memory)[i].key : i \in 1..Len(getRelevantResponses(memory))}

\* C34: the relevant responses are at most 7, one per state id, those of the
\* most recently recorded states; the response recorded last is among them
\* with its value
C34_MostRecentResponses ==
  storeCall.pending =>
    /\ Len(getRelevantResponses(memory)) <= 7
    /\ Cardinality(RelevantIds) = Len(getRelevantResponses(memory))
    /\ RelevantIds = MostRecentIds
    /\ \E i \in 1..Len(getRelevantResponses(memory)) :
         /\ getRelevantResponses(memory)[i].key = storeCall.questionId
         /\ getRelevantResponses(memory)[i].value.value = storeCall.response

\* the length of the run of identical characters s starts with
RECURSIVE RunAt(_, _)
RunAt(s, n) ==
  IF n < Len(s) /\ CharAt(s, n + 1) = CharAt(s, 1) THEN RunAt(s, n + 1) ELSE n

\* s with every maximal run of three or more identical characters cut to two
RECURSIVE Collapsed(_)
Collapsed(s) ==
  IF s = "" THEN ""
  ELSE (IF RunAt(s, 1) >= 3 THEN CharAt(s, 1) \o CharAt(s, 1) ELSE SubSeq(s, 1, RunAt(s, 1)))
         \o Collapsed(SubSeq(s, RunAt(s, 1) + 1, Len(s)))

NoTripleRun(s) ==
  \A i \in 1..(Len(s) - 2) : ~(CharAt(s, i) = CharAt(s, i + 1) /\ CharAt(s, i + 1) = CharAt(s, i + 2))

ReplyTexts ==
  {IF content = "" THEN "I apologize, but I couldn't process that response." ELSE content :
     content \in ModelContents \cup SupportContents}

\* C35: the reply returned by an escalated turn is the model's text with every
\* maximal run of three or more identical characters cut to exactly two and
\* every shorter run unchanged; it holds no run of three identical characters
\* and post-processing it again changes nothing.
C35_RunsCutToTwo ==
  turn.outcome = "llm" =>
    /\ \E text \in ReplyTexts : turn.result.response = Collapsed(text)
    /\ NoTripleRun(turn.result.response)
    /\ fixDuplication(turn.result.response) = turn.result.response

\* C36: whenever a turn returns a next state, the session's current state
\* after the turn is the returned state, also when the next state of an
\* escalated turn was inferred from a display name in the model's reply.
C36_ReturnedStateIsCurrent ==
  (TurnDone /\ turn.result.nextState # Null) =>
    turn.post.currentState = turn.result.nextState

\* C37: a comma-separated condition matches only if one of its non-empty
\* alternatives matches the utterance; an empty alternative, as the trailing
\* comma of "yes," leaves, does not make the condition match by itself.
C37_EmptyAlternativeNoMatch ==
  (matchCall.made /\ includes(matchCall.condition, ",") /\ matchCall.result) =>
    \E a \in Alternatives(matchCall.condition) \ {""} :
      matchesSingleCondition(Normalized(matchCall.response), a)

\* C38: when calls of processUserInput overlap at the await of the model
\* request, no token accounting is lost: once no call is suspended the input
\* and output counters are the sums of the estimates of the calls whose request
\* succeeded, and the total is the sum of the two counters.
C38_NoLostTokenUpdate ==
  pending = <<>> =>
    /\ memory.tokenUsage.inputTokens = SumOf(tokenCalls, 1)
    /\ memory.tokenUsage.outputTokens = SumOf(tokenCalls, 2)
    /\ memory.tokenUsage.totalTokens
         = memory.tokenUsage.inputTokens + memory.tokenUsage.outputTokens

\* two calls were suspended together (the second began before the first
\* resumed), both requests succeeded and both calls have returned
C38_Witness ==
  /\ pending = <<>>
  /\ Len(tokenCalls) = 2
  /\ modelCalls = 2
  /\ turn.outcome = "llm"
  /\ turn.pre.modelCalls = 0
  /\ turn.post.modelCalls = 2
  /\ memory.tokenUsage.outputTokens = 9

(***************************************************************************)
(* Validation of a flow, stated on the call flowCall records.              *)
(***************************************************************************)
\* S with the defined states one transition away from a state of S
Successors(defs, S) ==
  S \cup {t \in DOMAIN defs :
            \E id \in S : \E i \in 1..Len(defs[id].transitions) :
              defs[id].transitions[i].targetState = t}

RECURSIVE Closure(_, _)
Closure(defs, S) == IF Successors(defs, S) = S THEN S ELSE Closure(defs, Successors(defs, S))

\* the defined states reachable from the initial state through defined states
ReachableFrom(b) ==
  Closure(b.stateDefinitions, {b.initialState} \cap DOMAIN b.stateDefinitions)

RECURSIVE SumOver(_, _)
SumOver(defs, S) ==
  IF S = {} THEN 0
  ELSE LET id == CHOOSE x \in S : TRUE
       IN Len(defs[id].transitions) + 1 + SumOver(defs, S \ {id})

\* C39: validateStateFlow terminates on every flow, cyclic ones, ones with
\* dangling targets and ones with an undefined initial state included: it
\* takes no more steps than the flow has states and transitions and ends by
\* returning its issues, and the returned warnings 'not reachable from the
\* initial state' are those of exactly the defined states that cannot be
\* reached from initialState through defined states.
C39_ValidationEnds ==
  /\ flowCall.status # "threw"
  /\ flowCall.steps <= 1 + SumOver(flowCall.business.stateDefinitions,
                                   DOMAIN flowCall.business.stateDefinitions)
  /\ flowCall.status = "returned" =>
       {x \in flowCall.issues : endsWith(x.message, "is not reachable from the initial state")}
         = {unreachableIssue(flowCall.business.stateDefinitions, id) :
              id \in DOMAIN flowCall.business.stateDefinitions
                       \ ReachableFrom(flowCall.business)}

====
